---- MODULE Spec2Model ----
(***************************************************************************)
(* Line Localization Machine: the content script's translation run        *)
(* (startTranslation / translateWithAnimations), the translation channel   *)
(* as seen from callTranslationAPI, and the per-element animation phases.  *)
(*                                                                         *)
(* JavaScript runs every job to completion: an action of this module is    *)
(* one job (a message handler, a promise continuation, a timer callback),  *)
(* from the point where it is resumed to its next suspension point.        *)
(***************************************************************************)
EXTENDS Integers, Sequences, FiniteSets, TLC

\* ---------------------------------------------------------------- bounds
MaxBlocks == 4        \* blocks on the page (groupIntoBlocks output length)
MaxItems == 2         \* items per block on the modelled pages
MaxRuns == 2          \* accepted startTranslation calls per page view, on pages
MaxRerunItems == 1    \* of at most this many items
MaxSecondRunItems == 3 \* larger pages of at most this many items are run a second
                      \* time after a run that failed, all others once
MaxCodecBlocks == 2   \* blocks in a batch given to translateMultipleBlocks alone
MaxCodecItems == 2    \* items per block of such a batch
MaxPieces == 3        \* pieces a response text is put together from
MaxLinkPieces == 5    \* pieces an item's markup is put together from
MaxNodes == 6         \* elements of a content root
MaxCalls == 12         \* callTranslationAPI calls made on one history
MaxTextPieces == 3     \* pieces a translated text is put together from
MaxUrlLen == 3         \* characters of a base URL and of a path
MaxTextNodes == 3      \* text nodes of a content root with nested elements
MaxAnimBlocks == 3     \* blocks of a batch animated on its own
MaxAnimItems == 2      \* items per block of such a batch
MaxStoreRuns == 2      \* runs the content scripts of the tab start
MaxInflight == 1       \* runtime messages waiting to be delivered
MaxTicks == 2          \* times the clock advances while the store is looked at
MaxGets == 2           \* getTranslationState calls of the popup

\* ------------------------------------------------------- program constants
DefaultBlocksPerRequest == 5
MaxHistory == 10
MaxRetries == 3        \* retries of a 5xx answer the documentation promises
MaxAgeMinutes == 10    \* maxAge of a stored translation state

\* ----------------------------------------------------------------- values
\* JavaScript values a settings field can hold, by what the validation of
\* startTranslation looks at: truthiness, typeof, and the trimmed length.
Undefined == [type |-> "undefined", str |-> <<>>]
NumberFive == [type |-> "number", str |-> <<>>]
Str(s) == [type |-> "string", str |-> s]
GoodValue == Str(<<" ", "k">>)
BadValues == {Undefined, NumberFive, Str(<<>>), Str(<<" ">>)}

\* a string is the sequence of its characters; \s of the modelled alphabet
IsSpace(c) == c \in {" ", "\n"}

RECURSIVE TrimLeft(_)
TrimLeft(s) == IF s # <<>> /\ IsSpace(Head(s)) THEN TrimLeft(Tail(s)) ELSE s

RECURSIVE TrimRight(_)
TrimRight(s) ==
  IF s # <<>> /\ IsSpace(s[Len(s)]) THEN TrimRight(SubSeq(s, 1, Len(s) - 1)) ELSE s

\* String.prototype.trim
Trim(s) == TrimRight(TrimLeft(s))

Min(a, b) == IF a < b THEN a ELSE b

\* the least and the greatest of a set of positions, 0 for the empty set
MinOf(S) == IF S = {} THEN 0 ELSE CHOOSE i \in S : \A j \in S : i <= j
MaxOf(S) == IF S = {} THEN 0 ELSE CHOOSE i \in S : \A j \in S : j <= i

\* ------------------------------------------------------------------ strings
\* String.prototype.substring(from, to) with 0-based from and exclusive to
Substring(s, from, to) == SubSeq(s, from + 1, to)

\* t occurs in s at the 1-based position i
OccursAt(s, t, i) == i >= 1 /\ i + Len(t) - 1 <= Len(s) /\ SubSeq(s, i, i + Len(t) - 1) = t

\* String.prototype.indexOf(t, from) as a 1-based position, 0 when absent
IndexFrom(s, t, from) == MinOf({i \in from..(Len(s) - Len(t) + 1) : OccursAt(s, t, i)})
IndexOf(s, t) == IndexFrom(s, t, 1)

\* String.prototype.includes
Includes(s, t) == IndexOf(s, t) # 0

\* String.prototype.split with a non-empty string separator
RECURSIVE Split(_, _)
Split(s, sep) ==
  LET i == IndexOf(s, sep)
  IN  IF i = 0 THEN <<s>>
      ELSE <<SubSeq(s, 1, i - 1)>> \o Split(SubSeq(s, i + Len(sep), Len(s)), sep)

\* Array.prototype.join
RECURSIVE Join(_, _)
Join(parts, sep) ==
  IF parts = <<>> THEN <<>>
  ELSE IF Len(parts) = 1 THEN parts[1]
  ELSE parts[1] \o sep \o Join(Tail(parts), sep)

\* parts.map(part => part.trim()).filter(part => part.length > 0)
TrimAndDropEmpty(parts) ==
  SelectSeq([i \in DOMAIN parts |-> Trim(parts[i])], LAMBDA part : part # <<>>)

\* ----------------------------------------------------------------- links
\* the /i flag, for the letters of the modelled alphabet
Lower(c) ==
  CASE c = "A" -> "a" [] c = "H" -> "h" [] c = "R" -> "r" [] c = "E" -> "e"
    [] c = "F" -> "f" [] OTHER -> c
LowerStr(s) == [i \in DOMAIN s |-> Lower(s[i])]

\* least position >= from whose character is in chars (member) or is not
\* (~member), or 0
FirstPos(s, from, chars, member) ==
  MinOf({i \in from..Len(s) : (s[i] \in chars) = member})

\* position after a greedy \s* that starts at from
SkipSpaces(s, from) == MinOf({i \in from..(Len(s) + 1) : i = Len(s) + 1 \/ ~IsSpace(s[i])})

IsQuote(c) == c \in {"\"", "'"}

NoMatch == [found |-> FALSE, from |-> 0, to |-> 0, href |-> <<>>, linkText |-> <<>>]

\* the match of linkRegex from position i whose quoted href value is
\* s[open+1..close-1] and whose tag ends at gt, if </a> follows on the line
AnchorMatch(s, i, open, close, gt, end) ==
  IF /\ close # 0 /\ gt # 0 /\ end # 0
     /\ \A j \in (gt + 1)..(end - 1) : s[j] # "\n"
  THEN [found |-> TRUE, from |-> i, to |-> end + 3,
        href |-> SubSeq(s, open + 1, close - 1),
        linkText |-> SubSeq(s, gt + 1, end - 1)]
  ELSE NoMatch

\* [^>]*>(.*?)<\/a> after the closing quote
AfterQuote(s, i, open, close, gt) ==
  AnchorMatch(s, i, open, close, gt,
              IF gt = 0 THEN 0
              ELSE MinOf({c \in (gt + 1)..(Len(s) - 3) :
                            OccursAt(LowerStr(s), <<"<", "/", "a", ">">>, c)}))

\* ["']([^"']*)["'] at position open
Quoted(s, i, open, close) ==
  AfterQuote(s, i, open, close, IF close = 0 THEN 0 ELSE FirstPos(s, close + 1, {">"}, TRUE))

\* \s*["'] after the equals sign at position eq
AfterEquals(s, i, open) ==
  IF open <= Len(s) /\ IsQuote(s[open])
  THEN Quoted(s, i, open, FirstPos(s, open + 1, {"\"", "'"}, TRUE))
  ELSE NoMatch

\* \s*= at position eq
EqualsAt(s, i, eq) ==
  IF eq <= Len(s) /\ s[eq] = "=" THEN AfterEquals(s, i, SkipSpaces(s, eq + 1)) ELSE NoMatch

\* the rest of linkRegex once 'href' is taken at position h:
\* \s*=\s*["']([^"']*)["'][^>]*>(.*?)<\/a>
HrefTail(s, i, h) == IF h = 0 THEN NoMatch ELSE EqualsAt(s, i, SkipSpaces(s, h + 4))

\* linkRegex anchored at position i:
\* /<a\s+[^>]*href\s*=\s*["']([^"']*)["'][^>]*>(.*?)<\/a>/i
\* the greedy [^>]* takes the last 'href' of the tag from which the rest matches
LinkMatchAt(s, i) ==
  IF ~(OccursAt(LowerStr(s), <<"<", "a">>, i) /\ i + 2 <= Len(s) /\ IsSpace(s[i + 2]))
  THEN NoMatch
  ELSE HrefTail(s, i, MaxOf({h \in (i + 3)..Len(s) :
                               /\ OccursAt(LowerStr(s), <<"h", "r", "e", "f">>, h)
                               /\ \A j \in (i + 3)..(h - 1) : s[j] # ">"
                               /\ HrefTail(s, i, h).found}))

\* the leftmost match of linkRegex at or after position from
NextLinkMatch(s, from) ==
  LinkMatchAt(s, MinOf({i \in from..Len(s) : LinkMatchAt(s, i).found}))

\* match.match(/<a\s+([^>]*)>/i)?.[1] || `href="${href}"`
LinkAttributes(match, href) ==
  LET attrs == SkipSpaces(match, 3)
      gt == FirstPos(match, attrs, {">"}, TRUE)
      group == SubSeq(match, attrs, gt - 1)
  IN  IF group # <<>> THEN group
      ELSE <<"h", "r", "e", "f", "=", "\"">> \o href \o <<"\"">>

\* `[LINK_${n}]` and `[/LINK_${n}]`
StartPlaceholder(n) == <<"[", "L", "I", "N", "K", "_", ToString(n), "]">>
EndPlaceholder(n) == <<"[", "/", "L", "I", "N", "K", "_", ToString(n), "]">>

\* the global replace of replaceLinksWithPlaceholders from position from on;
\* linkMap is the list of its entries in insertion order, entry n under the
\* key `[LINK_${n}]`
RECURSIVE ReplaceLinksFrom(_, _, _)
\* the replacement callback for the match m, and the replace after it
ReplaceMatch(s, from, linkMap, m) ==
  IF ~m.found THEN [text |-> SubSeq(s, from, Len(s)), linkMap |-> linkMap]
  ELSE LET n == Len(linkMap) + 1
           match == SubSeq(s, m.from, m.to)
           entry == [originalHTML |-> match, href |-> m.href, originalText |-> m.linkText,
                     attributes |-> LinkAttributes(match, m.href)]
           rest == ReplaceLinksFrom(s, m.to + 1, Append(linkMap, entry))
       IN  [text |-> SubSeq(s, from, m.from - 1) \o StartPlaceholder(n) \o m.linkText
                       \o EndPlaceholder(n) \o rest.text,
            linkMap |-> rest.linkMap]
ReplaceLinksFrom(s, from, linkMap) == ReplaceMatch(s, from, linkMap, NextLinkMatch(s, from))

replaceLinksWithPlaceholders(text, linkMap) == ReplaceLinksFrom(text, 1, linkMap)

\* the replacement patterns String.prototype.replace expands in a replacement
\* string: $$, $&, $` and $'
RECURSIVE ExpandReplacement(_, _, _, _)
ExpandReplacement(rep, matched, before, after) ==
  IF rep = <<>> THEN <<>>
  ELSE IF Len(rep) >= 2 /\ rep[1] = "$" /\ rep[2] \in {"$", "&", "`", "'"}
  THEN (CASE rep[2] = "$" -> <<"$">>
          [] rep[2] = "&" -> matched
          [] rep[2] = "`" -> before
          [] rep[2] = "'" -> after)
         \o ExpandReplacement(SubSeq(rep, 3, Len(rep)), matched, before, after)
  ELSE <<rep[1]>> \o ExpandReplacement(Tail(rep), matched, before, after)

\* s.replace(pattern, rep) with a string pattern: the first occurrence only
ReplaceFirst(s, pattern, rep) ==
  LET i == IndexOf(s, pattern)
      before == SubSeq(s, 1, i - 1)
      after == SubSeq(s, i + Len(pattern), Len(s))
  IN  IF i = 0 THEN s
      ELSE before \o ExpandReplacement(rep, pattern, before, after) \o after

\* s.replace(new RegExp(escaped pattern, 'g'), rep): every occurrence from
\* position from on
RECURSIVE ReplaceAllFrom(_, _, _, _)
ReplaceAllFrom(s, pattern, rep, from) ==
  LET i == IndexFrom(s, pattern, from)
      before == SubSeq(s, 1, i - 1)
      after == SubSeq(s, i + Len(pattern), Len(s))
  IN  IF i = 0 THEN SubSeq(s, from, Len(s))
      ELSE SubSeq(s, from, i - 1) \o ExpandReplacement(rep, pattern, before, after)
             \o ReplaceAllFrom(s, pattern, rep, i + Len(pattern))

\* one iteration of the loop of restoreLinksFromPlaceholders, for entry n
RestoreLink(text, n, linkData) ==
  LET startIndex == IndexOf(text, StartPlaceholder(n)) - 1
      endIndex == IndexOf(text, EndPlaceholder(n)) - 1
      extractedText == Substring(text, startIndex + Len(StartPlaceholder(n)), endIndex)
      newLink == <<"<", "a", " ">> \o linkData.attributes \o <<">">> \o Trim(extractedText)
                   \o <<"<", "/", "a", ">">>
      placeholderSection == Substring(text, startIndex, endIndex + Len(EndPlaceholder(n)))
  IN  IF startIndex # -1 /\ endIndex # -1 /\ endIndex > startIndex
      THEN ReplaceFirst(text, placeholderSection, newLink)
      ELSE IF Includes(text, StartPlaceholder(n))
      THEN ReplaceAllFrom(text, StartPlaceholder(n), linkData.originalHTML, 1)
      ELSE text

RECURSIVE RestoreLinksFrom(_, _, _)
RestoreLinksFrom(text, linkMap, n) ==
  IF n > Len(linkMap) THEN text
  ELSE RestoreLinksFrom(RestoreLink(text, n, linkMap[n]), linkMap, n + 1)

restoreLinksFromPlaceholders(text, linkMap) == RestoreLinksFrom(text, linkMap, 1)

\* ------------------------------------------------------------- batch codec
NL == "\n"
BlockToken == <<"=", "=", "=", "B", "L", "O", "C", "K", "_", "S", "E", "P", "A", "R", "A", "T", "O", "R", "=", "=", "=">>
ItemToken == <<"|", "|", "I", "T", "E", "M", "_", "S", "E", "P", "A", "R", "A", "T", "O", "R", "|", "|">>
\* '\n\n===BLOCK_SEPARATOR===\n\n' and '\n\n||ITEM_SEPARATOR||\n\n'
BlockSeparator == <<NL, NL>> \o BlockToken \o <<NL, NL>>
ItemSeparator == <<NL, NL>> \o ItemToken \o <<NL, NL>>

\* an item as translateMultipleBlocks reads it
Item(originalText, hasLinks, originalHTML) ==
  [originalText |-> originalText, hasLinks |-> hasLinks, originalHTML |-> originalHTML]
PlainItem(originalText) == Item(originalText, FALSE, <<>>)

\* textToTranslate of one item, and the linkMap after it
EncodeItem(item, linkMap) ==
  IF item.hasLinks /\ item.originalHTML # <<>>
  THEN replaceLinksWithPlaceholders(item.originalHTML, linkMap)
  ELSE [text |-> item.originalText, linkMap |-> linkMap]

\* block.map(item => textToTranslate), threading the shared linkMap
RECURSIVE EncodeItems(_, _)
EncodeItems(block, linkMap) ==
  IF block = <<>> THEN [texts |-> <<>>, linkMap |-> linkMap]
  ELSE LET first == EncodeItem(Head(block), linkMap)
           rest == EncodeItems(Tail(block), first.linkMap)
       IN  [texts |-> <<first.text>> \o rest.texts, linkMap |-> rest.linkMap]

\* blocks.map(block => ... .join(item separator)), threading the linkMap
RECURSIVE EncodeBlocks(_, _)
EncodeBlocks(blocks, linkMap) ==
  IF blocks = <<>> THEN [blockTexts |-> <<>>, linkMap |-> linkMap]
  ELSE LET first == EncodeItems(Head(blocks), linkMap)
           rest == EncodeBlocks(Tail(blocks), first.linkMap)
       IN  [blockTexts |-> <<Join(first.texts, ItemSeparator)>> \o rest.blockTexts,
            linkMap |-> rest.linkMap]

\* combinedText
CombinedText(blocks) == Join(EncodeBlocks(blocks, <<>>).blockTexts, BlockSeparator)

\* the three-tier split of the response into blocks
SplitBlocks(translatedText) ==
  LET exact == Split(translatedText, BlockSeparator)
      bare == IF Len(exact) = 1 /\ Includes(translatedText, BlockToken)
              THEN Split(translatedText, BlockToken) ELSE exact
  IN  IF Len(bare) = 1 /\ Includes(translatedText, BlockToken)
      THEN Split(translatedText, <<NL>> \o BlockToken \o <<NL>>) ELSE bare

\* the three-tier split of a block's text into trimmed non-empty parts
SplitItems(translatedBlockText) ==
  LET exact == TrimAndDropEmpty(Split(translatedBlockText, ItemSeparator))
      bare == IF Len(exact) = 1 /\ Includes(translatedBlockText, ItemToken)
              THEN TrimAndDropEmpty(Split(translatedBlockText, ItemToken)) ELSE exact
  IN  IF Len(bare) = 1 /\ Includes(translatedBlockText, ItemToken)
      THEN TrimAndDropEmpty(Split(translatedBlockText, <<NL>> \o ItemToken \o <<NL>>))
      ELSE bare

IsPunct(c) == c \in {".", "!", "?"}

\* s.split(/[.!?]\s+/)
RECURSIVE SplitSentences(_)
SplitSentences(s) ==
  LET hits == {i \in 1..(Len(s) - 1) : IsPunct(s[i]) /\ IsSpace(s[i + 1])}
      i == CHOOSE k \in hits : \A j \in hits : k <= j
  IN  IF hits = {} THEN <<s>>
      ELSE <<SubSeq(s, 1, i - 1)>>
             \o SplitSentences(SubSeq(s, SkipSpaces(s, i + 1), Len(s)))

\* parts.filter(p => p && typeof p === 'string' && p.trim())
KeepNonBlank(parts) == SelectSeq(parts, LAMBDA part : Trim(part) # <<>>)

\* remaining.lastIndexOf(' ', fromIndex), 0-based, -1 when absent
LastIndexOfSpace(remaining, fromIndex) ==
  LET hits == {k \in 0..Min(fromIndex, Len(remaining) - 1) : remaining[k + 1] = " "}
  IN  IF hits = {} THEN -1 ELSE CHOOSE k \in hits : \A j \in hits : j <= k

\* the loop that cuts left more parts off remaining, and the final push
RECURSIVE SplitProportionally(_, _, _)
SplitProportionally(remaining, avgLength, left) ==
  LET splitIndex == Min(avgLength, Len(remaining))
      wordBoundary == LastIndexOfSpace(remaining, splitIndex)
      cutIndex == IF 10 * wordBoundary > 7 * splitIndex THEN wordBoundary ELSE splitIndex
  IN  IF left = 0 THEN <<remaining>>
      ELSE <<Trim(Substring(remaining, 0, cutIndex))>>
             \o SplitProportionally(Trim(Substring(remaining, cutIndex, Len(remaining))),
                                    avgLength, left - 1)

\* a single recovered part for a block of n > 1 items
ResplitSingle(singleTranslation, n) ==
  LET sentences == KeepNonBlank(SplitSentences(singleTranslation))
      paragraphs == KeepNonBlank(Split(singleTranslation, <<NL, NL>>))
      avgLength == (Len(singleTranslation) + n - 1) \div n
  IN  IF Len(sentences) = n
      THEN [k \in 1..n |->
              Trim(sentences[k])
                \o (IF IsPunct(sentences[k][Len(sentences[k])]) THEN <<>> ELSE <<".">>)]
      ELSE IF Len(paragraphs) = n
      THEN [k \in 1..n |-> Trim(paragraphs[k])]
      ELSE SplitProportionally(singleTranslation, avgLength, n - 1)

\* the mismatch branches of translateMultipleBlocks for one block
Realign(translatedParts, originalBlock) ==
  LET n == Len(originalBlock)
  IN  IF Len(translatedParts) = n THEN translatedParts
      ELSE IF Len(translatedParts) = 1 /\ n > 1
      THEN ResplitSingle(translatedParts[1], n)
      ELSE IF Len(translatedParts) > n
      THEN SubSeq(translatedParts, 1, n - 1)
             \o <<Trim(Join(SubSeq(translatedParts, n, Len(translatedParts)), <<" ">>))>>
      ELSE translatedParts
             \o [k \in 1..(n - Len(translatedParts)) |->
                   originalBlock[Len(translatedParts) + k].originalText]

DecodeBlockMut(i, blocks, translatedBlocks, encoded) ==
  IF i > Len(translatedBlocks) THEN <<>>
  ELSE LET split == SplitItems(translatedBlocks[i])
           restored == [k \in DOMAIN split |->
                          restoreLinksFromPlaceholders(split[k], encoded.linkMap)]
       IN  Realign(restored, blocks[i])
\* the body of the for loop of translateMultipleBlocks for block i
DecodeBlock(i, blocks, translatedBlocks, encoded) ==
  LET originalBlock == blocks[i]
      translatedBlockText ==
        IF i <= Len(translatedBlocks) /\ translatedBlocks[i] # <<>>
        THEN translatedBlocks[i] ELSE encoded.blockTexts[i]
      split == SplitItems(translatedBlockText)
      restored == [k \in DOMAIN split |->
                     restoreLinksFromPlaceholders(split[k], encoded.linkMap)]
      translatedParts == Realign(restored, originalBlock)
  IN  IF Len(translatedParts) # Len(originalBlock)
      THEN [k \in DOMAIN originalBlock |-> originalBlock[k].originalText]
      ELSE translatedParts

DecodeBlocksMut(blocks, translatedText) ==
  LET encoded == EncodeBlocks(blocks, <<>>)
      translatedBlocks == SplitBlocks(translatedText)
  IN  [i \in 1..Min(Len(blocks), Len(translatedBlocks)) |->
         DecodeBlock(i, blocks, translatedBlocks, encoded)]
\* translateMultipleBlocks from the string callTranslationAPI returned to
\* the results it returns
DecodeBlocks(blocks, translatedText) ==
  LET encoded == EncodeBlocks(blocks, <<>>)
      translatedBlocks == SplitBlocks(translatedText)
  IN  [i \in DOMAIN blocks |-> DecodeBlock(i, blocks, translatedBlocks, encoded)]

\* ------------------------------------------------- extraction and grouping
\* the modelled document: body > div (the content root) > ul > li > div
ParentElement == [root |-> "body", list |-> "root", entry |-> "list", nested |-> "entry"]
\* the nodes that match 'ul, ol, table, blockquote, .content, .post'
ListedContainers == {"list"}

\* an element with one text node: tagName, parentElement and the node's text
Node(tagName, parentElement, text) ==
  [tagName |-> tagName, parentElement |-> parentElement, text |-> text]

toLowerCase == [H1 |-> "h1", P |-> "p"]

\* getElementDepth of a node of the document, and of an item's element
RECURSIVE NodeDepth(_)
NodeDepth(n) == IF n = "body" THEN 0 ELSE 1 + NodeDepth(ParentElement[n])
getElementDepth(element) == 1 + NodeDepth(element.parentElement)

\* closest('ul, ol, ...') seen from a child of node n: the node or null
RECURSIVE Closest(_)
Closest(n) ==
  IF n \in ListedContainers THEN n
  ELSE IF n = "body" THEN "null" ELSE Closest(ParentElement[n])

Abs(x) == IF x < 0 THEN 0 - x ELSE x

\* acceptNode and the loop body of extractTextElements for one text node
\* that is the only one of its parent
AcceptedMut(node) == Len(Trim(node.text)) >= 5
Accepted(node) == Len(Trim(node.text)) >= 5 /\ Len(Trim(node.text)) >= 10

\* extractTextElements over the elements of the container, in document order
RECURSIVE extractTextElements(_)
extractTextElements(container) ==
  IF container = <<>> THEN <<>>
  ELSE LET node == Head(container)
       IN  (IF Accepted(node)
            THEN <<[originalText |-> Trim(node.text), hasLinks |-> FALSE,
                    originalHTML |-> <<>>,
                    element |-> [tagName |-> node.tagName,
                                 parentElement |-> node.parentElement]]>>
            ELSE <<>>) \o extractTextElements(Tail(container))

StrongBoundaryMut(tagName) == FALSE
StrongBoundary(tagName) ==
  tagName \in {"h1", "h2", "h3", "h4", "h5", "h6", "article", "section"}

\* isBlockBoundary; hasNext is false when nextElement is undefined
isBlockBoundary(element, hasNext, nextElement) ==
  LET tagName == toLowerCase[element.element.tagName]
  IN  \/ StrongBoundary(tagName)
      \/ /\ hasNext
         /\ LET nextTagName == toLowerCase[nextElement.element.tagName]
            IN  \/ tagName # nextTagName /\ nextTagName \in {"p", "div", "li", "blockquote"}
                \/ /\ element.element.parentElement # nextElement.element.parentElement
                   /\ Abs(getElementDepth(element.element)
                          - getElementDepth(nextElement.element)) > 2

areElementsRelated(element1, element2) ==
  LET parent1 == element1.element.parentElement
      parent2 == element2.element.parentElement
  IN  \/ parent1 = parent2
      \/ Closest(parent1) # "null" /\ Closest(parent1) = Closest(parent2)

\* the hard limit on a block's size
HardLimitMut(currentBlock) == FALSE
HardLimit(currentBlock) == Len(currentBlock) >= 5

\* the loop of groupIntoBlocks from element i on, and what it returns
RECURSIVE GroupFrom(_, _, _, _)
GroupFrom(textElements, i, blocks, currentBlock) ==
  IF i > Len(textElements)
  THEN IF Len(currentBlock) > 0 THEN Append(blocks, currentBlock) ELSE blocks
  ELSE LET element == textElements[i]
           hasNext == i < Len(textElements)
           nextElement == IF hasNext THEN textElements[i + 1] ELSE element
           boundary == isBlockBoundary(element, hasNext, nextElement) /\ Len(currentBlock) > 0
           blocks1 == IF boundary THEN Append(blocks, currentBlock) ELSE blocks
           current1 == Append(IF boundary THEN <<>> ELSE currentBlock, element)
           full == /\ Len(current1) >= 3
                   /\ ~hasNext \/ ~areElementsRelated(element, nextElement)
           blocks2 == IF full THEN Append(blocks1, current1) ELSE blocks1
           current2 == IF full THEN <<>> ELSE current1
           hard == HardLimit(current2)
       IN  GroupFrom(textElements, i + 1,
                     IF hard THEN Append(blocks2, current2) ELSE blocks2,
                     IF hard THEN <<>> ELSE current2)
groupIntoBlocks(textElements) == GroupFrom(textElements, 1, <<>>, <<>>)

\* !v for the modelled values: undefined and '' are falsy, 5 and ' ' are not
Falsy(v) == v.type = "undefined" \/ (v.type = "string" /\ v.str = <<>>)

IsNonBlankStringMut(v) == ~Falsy(v) /\ v.type = "string"
\* the three-part test of startTranslation, negated: the field is accepted
IsNonBlankString(v) == ~(Falsy(v) \/ v.type # "string" \/ Len(Trim(v.str)) = 0)

\* the error startTranslation throws for these settings, "none" if it accepts
ValidationError(settings) ==
  IF ~IsNonBlankString(settings.apiKey) THEN "API key is required"
  ELSE IF ~IsNonBlankString(settings.model) THEN "Model is required"
  ELSE IF ~IsNonBlankString(settings.targetLanguage) THEN "Target language is required"
  ELSE "none"

AlreadyInProgress == "Translation already in progress"
NoContent == "No translatable content found on this page"

\* settings.blocksPerRequest: 0 stands for undefined
BprChoices == {0, 1}
Settings(apiKey, model, targetLanguage, bpr) ==
  [apiKey |-> apiKey, model |-> model, targetLanguage |-> targetLanguage,
   blocksPerRequest |-> bpr]

\* the settings a START_TRANSLATION message is modelled to carry: complete
\* ones, and ones with a single unusable field
SettingsInputs ==
  {Settings(GoodValue, GoodValue, GoodValue, bpr) : bpr \in BprChoices}
    \cup {Settings(v, GoodValue, GoodValue, 0) : v \in BadValues}
    \cup {Settings(GoodValue, v, GoodValue, 0) : v \in BadValues}
    \cup {Settings(GoodValue, GoodValue, v, 0) : v \in BadValues}

NoSettings == [apiKey |-> Undefined, model |-> Undefined, targetLanguage |-> Undefined,
               blocksPerRequest |-> 0]

\* ValidationError of each of these settings, worked out once
ValidationErrors == [settings \in SettingsInputs |-> ValidationError(settings)]

\* this.translationSettings.blocksPerRequest || 5
BlocksPerRequest(settings) ==
  IF settings.blocksPerRequest = 0 THEN DefaultBlocksPerRequest ELSE settings.blocksPerRequest

\* ---------------------------------------------------------------- channel
\* APIClient.categorizeError
categorizeError(status) ==
  IF status = 401 THEN "authentication"
  ELSE IF status = 403 THEN "forbidden"
  ELSE IF status = 404 THEN "not_found"
  ELSE IF status = 429 THEN "rate_limit"
  ELSE IF status >= 400 /\ status < 500 THEN "client_error"
  ELSE IF status >= 500 THEN "server_error"
  ELSE "unknown"

\* What chrome.runtime.sendMessage({action: 'TRANSLATE_REQUEST'}) resolves to.
\* errorStatus 0 and errorType "undefined" stand for an absent field;
\* isRetryable is "true", "false" or "undefined".
ChannelResult(defined, success, textIsString, error, errorType, errorStatus, isRetryable) ==
  [defined |-> defined, success |-> success, textIsString |-> textIsString,
   error |-> error, errorType |-> errorType, errorStatus |-> errorStatus,
   isRetryable |-> isRetryable]

ResultOk == ChannelResult(TRUE, TRUE, TRUE, "", "undefined", 0, "undefined")

\* chatCompletion's !response.ok branch, passed through APIClient.translate's
\* catch and BackgroundScript.handleTranslationRequest
HttpFailure(status) ==
  ChannelResult(TRUE, FALSE, FALSE, "API Error: " \o ToString(status),
                categorizeError(status), status,
                IF status >= 500 \/ status = 429 THEN "true" ELSE "false")

\* an error thrown without type or status (e.g. 'API endpoint is required'):
\* translate's catch fills errorType 'unknown' and isRetryable false
ResultUnknown ==
  ChannelResult(TRUE, FALSE, FALSE, "API endpoint is required", "unknown", 0, "false")

\* sendMessage resolved with undefined (no listener answered)
ResultMissing == ChannelResult(FALSE, FALSE, FALSE, "", "undefined", 0, "undefined")

HttpStatuses == {401, 429, 500}

ChannelResults ==
  {ResultOk, ResultUnknown, ResultMissing}
    \cup {HttpFailure(s) : s \in HttpStatuses}

\* an Error object as the content script builds and inspects it
ErrorObj(message, errorType, status, isFatalError) ==
  [message |-> message, errorType |-> errorType, status |-> status,
   isFatalError |-> isFatalError]

NoError == ErrorObj("", "undefined", 0, FALSE)

IsFatalResultMut(result) ==
  result.defined /\ result.isRetryable = "false"
\* callTranslationAPI, the condition that sets error.isFatalError
IsFatalResult(result) ==
  result.defined /\
    (result.isRetryable = "false" \/ (result.errorStatus >= 400 /\ result.errorStatus < 500))

callTranslationAPIMut(result) ==
  IF ~result.defined \/ ~result.success
  THEN [threw |-> TRUE, pushed |-> FALSE,
        error |-> ErrorObj(IF result.defined /\ result.error # "" THEN result.error
                           ELSE "Translation failed",
                           IF result.defined THEN result.errorType ELSE "undefined",
                           IF result.defined THEN result.errorStatus ELSE 0, TRUE)]
  ELSE IF ~result.textIsString
  THEN [threw |-> TRUE, pushed |-> FALSE,
        error |-> ErrorObj("Translation failed: Invalid translation result",
                           "undefined", 0, TRUE)]
  ELSE [threw |-> FALSE, error |-> NoError, pushed |-> TRUE]
\* callTranslationAPI from the moment sendMessage resolves: what it returns
\* or throws, and whether it appends to this.translationHistory
callTranslationAPI(result) ==
  IF ~result.defined \/ ~result.success
  THEN LET message == IF result.defined /\ result.error # "" THEN result.error
                      ELSE "Translation failed"
           error == ErrorObj(message,
                             IF result.defined THEN result.errorType ELSE "undefined",
                             IF result.defined THEN result.errorStatus ELSE 0,
                             IsFatalResult(result))
       IN  IF error.isFatalError \/ error.errorType # "undefined"
           THEN [threw |-> TRUE, error |-> error, pushed |-> FALSE]
           ELSE [threw |-> TRUE, pushed |-> FALSE,
                 error |-> ErrorObj("Translation failed: " \o message, "undefined", 0, FALSE)]
  ELSE IF ~result.textIsString
  THEN [threw |-> TRUE, pushed |-> FALSE,
        error |-> ErrorObj("Translation failed: Invalid translation result",
                           "undefined", 0, FALSE)]
  ELSE [threw |-> FALSE, error |-> NoError, pushed |-> TRUE]

translateMultipleBlocksMut(result) ==
  LET api == callTranslationAPI(result)
  IN  IF ~api.threw THEN [threw |-> FALSE, texts |-> "translated", error |-> NoError]
      ELSE [threw |-> FALSE, texts |-> "originals", error |-> NoError]
\* translateMultipleBlocks from the moment callTranslationAPI settles: the
\* decoded texts ("translated"), the catch's fallback to every item's
\* originalText ("originals"), or the fatal error re-thrown
translateMultipleBlocks(result) ==
  LET api == callTranslationAPI(result)
  IN  IF ~api.threw THEN [threw |-> FALSE, texts |-> "translated", error |-> NoError]
      ELSE IF api.error.isFatalError
      THEN [threw |-> TRUE, texts |-> "none", error |-> api.error]
      ELSE [threw |-> FALSE, texts |-> "originals", error |-> NoError]

translationPromiseMut(result) ==
  LET tmb == translateMultipleBlocks(result)
  IN  IF ~tmb.threw
      THEN [settled |-> "resolved", success |-> TRUE, texts |-> tmb.texts, error |-> NoError]
      ELSE [settled |-> "resolved", success |-> FALSE, texts |-> "none", error |-> tmb.error]
\* the .then/.catch wrapper of startNextTranslation: what the promise in
\* translationQueue settles to
translationPromise(result) ==
  LET tmb == translateMultipleBlocks(result)
  IN  IF ~tmb.threw
      THEN [settled |-> "resolved", success |-> TRUE, texts |-> tmb.texts, error |-> NoError]
      ELSE IF tmb.error.isFatalError
      THEN [settled |-> "rejected", success |-> FALSE, texts |-> "none", error |-> tmb.error]
      ELSE [settled |-> "resolved", success |-> FALSE, texts |-> "none", error |-> tmb.error]

Pending == [settled |-> "pending", success |-> FALSE, texts |-> "none", error |-> NoError]

\* ------------------------------------------------------------------- page
\* The page as extractTextElements and groupIntoBlocks see it: a sequence of
\* blocks given by their item counts.  Items are numbered in document order.
\* Block b of a modelled page has ((b - 1) % MaxItems) + 1 items.
Pages == {[b \in 1..n |-> ((b - 1) % MaxItems) + 1] : n \in 0..MaxBlocks}

RECURSIVE Offset(_, _)
\* number of items before block b
Offset(pg, b) == IF b <= 1 THEN 0 ELSE Offset(pg, b - 1) + pg[b - 1]

NumItems(pg) == Offset(pg, Len(pg) + 1)
ItemsOfBlock(pg, b) == (Offset(pg, b) + 1)..(Offset(pg, b) + pg[b])

\* how many runs of a page are explored
RunLimit(pg, failed) ==
  IF NumItems(pg) <= MaxRerunItems THEN MaxRuns
  ELSE IF failed /\ NumItems(pg) <= MaxSecondRunItems THEN 2 ELSE 1


\* batches.length after the slicing loop of translateWithAnimations
NumBatches(n, bpr) == (n + bpr - 1) \div bpr

BatchBlocksMut(i, n, bpr) ==
  [x \in 1..(Min(n, (i + 1) * bpr) - i * bpr) |-> n - (i * bpr + x) + 1]
\* batches[i] = textBlocks.slice(i * bpr, i * bpr + bpr), as block numbers
BatchBlocks(i, n, bpr) ==
  [x \in 1..(Min(n, (i + 1) * bpr) - i * bpr) |-> i * bpr + x]

SeqRange(s) == {s[x] : x \in DOMAIN s}

ItemsOfBatch(pg, i, bpr) ==
  UNION {ItemsOfBlock(pg, b) : b \in SeqRange(BatchBlocks(i, Len(pg), bpr))}

ProgressMut(done, total) == (200 * done + total) \div 2
\* Math.round((completedCount / textBlocks.length) * 100)
Progress(done, total) == (200 * done + total) \div (2 * total)

PhaseClasses == {"llm-preparing", "llm-fading-out", "llm-translated", "llm-settled", "llm-error"}

\* an element nobody has touched: text generation 0 is the page's own text,
\* generation r > 0 the text returned to run r; -1 is an absent attribute
FreshElement == [cls |-> {}, state |-> "none", content |-> 0, original |-> -1, translated |-> -1]

VARIABLES
  page,                \* the document (fixed for the page view)
  isTranslating, translationSettings, translationHistory,
  totalBlocks, completedBlocks,       \* fields of LineLocalizationMachine
  run,                 \* number of accepted runs so far; names the current run
  pc,                  \* where the current run's coroutine is suspended
  batchIndex, blockIndex, itemIndex,  \* batchIndex, j, i of the nested loops
  completedCount, nextBatchIndex,     \* locals of translateWithAnimations
  items,               \* item.originalText of the current run's items
  requests,            \* TRANSLATE_REQUEST messages of the running run, and the
                       \* unanswered ones of finished runs, by <<run, batch>>
  elems,               \* the live elements
  emitted,             \* Translation State messages sent since the last accepted
                       \* start, in order
  clearTimers,         \* runs whose delayed clearTranslationState is pending
  revealOrder,         \* blocks given to animateTranslation by the current run
  startError,          \* what the last startTranslation call threw
  toggleTimers,        \* pending setTimeout(createToggleButton) calls
  toggles,             \* globalShowingOriginals of each toggle button made
  callBlocks,          \* translateMultipleBlocks: the blocks it was called with
  callText,            \* the string callTranslationAPI returned to it
  pieceCount,          \* pieces the response was put together from
  callResults,         \* what translateMultipleBlocks returned (<<>>: not yet)
  html,                \* the markup given to replaceLinksWithPlaceholders
  roundTrip,           \* the encoded text, its linkMap and the restored markup
  container,           \* the elements of a content root, in document order
  extracted,           \* what extractTextElements returned for it
  grouped,             \* what groupIntoBlocks returned for that
  calls,               \* callTranslationAPI calls made on the history alone
  channelText,         \* the text the channel returned for one item
  target,              \* that item's element: data-llm-state, data-llm-translated
                       \* and how its content was last written
  urlBase, urlPath,    \* the arguments of APIClient.joinUrl; urlBase is also
                       \* config.apiEndpoint of the translate call
  joined,              \* what joinUrl returned for them
  attempts,            \* the fetches one APIClient.translate call has made
  outcome,             \* what that call returned
  textNodes,           \* the text nodes of a content root, in document order
  textElements,        \* what extractTextElements returned for them
  animBatch,           \* a batch whose translation arrived: its blocks' sizes
  thrower,             \* the item whose element throws, and at which operation
  animElems,           \* the class lists of the batch's elements
  animPc,              \* where the animation of the batch is suspended
  animJ, animI,        \* j of the block loop, i of animateTranslation
  animCompleted,       \* completedCount
  translationStates,   \* the background script's Map, for the one tab looked at
  tabUrl,              \* the tab's URL (0: the tab is closed)
  tabStatus,           \* the tab is loading or has completed loading
  clock,               \* Date.now(), in minutes
  inflight,            \* runtime messages sent by the content script and not
                       \* yet delivered, in order
  updating,            \* states of the updateTranslationState calls suspended
                       \* at `await chrome.tabs.get`
  applied,             \* the highest sequence number of an update written to
                       \* the Map so far
  clearedRun,          \* the latest run whose CLEAR has been handled
  getting,             \* where the popup's getTranslationState call stands
  got,                 \* what these calls returned, in order
  cleaning,            \* performPeriodicCleanup is suspended at its tabs.get
  csRun, csTranslating,\* the content script: runs started, isTranslating
  csTimers             \* runs whose delayed clearTranslationState is pending

vars == <<page, isTranslating, translationSettings, translationHistory, totalBlocks,
          completedBlocks, run, pc, batchIndex, blockIndex, itemIndex, completedCount,
          nextBatchIndex, items, requests, elems, emitted, clearTimers, revealOrder,
          startError, toggleTimers, toggles, callBlocks, callText, pieceCount,
          callResults, html, roundTrip, container, extracted, grouped, calls,
          channelText, target, urlBase, urlPath, joined, attempts, outcome,
          textNodes, textElements, animBatch, thrower, animElems, animPc, animJ, animI,
          animCompleted, translationStates, tabUrl, tabStatus, clock, inflight,
          updating, applied, clearedRun, getting, got, cleaning, csRun, csTranslating, csTimers>>

\* the variables of one translateMultipleBlocks call taken on its own
codecVars == <<callBlocks, callText, pieceCount, callResults>>
\* the variables of the page view
viewVars == <<page, isTranslating, translationSettings, translationHistory, totalBlocks,
              completedBlocks, run, pc, batchIndex, blockIndex, itemIndex,
              completedCount, nextBatchIndex, items, requests, elems, emitted,
              clearTimers, revealOrder, startError, toggleTimers, toggles>>

\* the toggle buttons and the timers that make them
toggleVars == <<toggleTimers, toggles>>

\* the variables of one link encoding and decoding taken on its own
linkVars == <<html, roundTrip>>
\* the variables of one extraction and grouping taken on its own
groupVars == <<container, extracted, grouped>>
\* the variables the page view never touches
\* the variable of the translation history taken on its own
historyVars == <<calls>>
\* the variables of one item's text replacement taken on its own
writeVars == <<channelText, target>>
\* the variables of the functions looked at after the first four
\* the variables of the API client taken on its own
clientVars == <<urlBase, urlPath, joined, attempts, outcome>>
\* the variables of one walk over a tree of text nodes taken on its own
walkVars == <<textNodes, textElements>>
\* the variables of one batch's animation taken on its own
animVars == <<animBatch, thrower, animElems, animPc, animJ, animI, animCompleted>>
\* the variables of what is looked at last
\* the variables of the background script's state store taken on its own
storeVars == <<translationStates, tabUrl, tabStatus, clock, inflight, updating, applied, clearedRun,
               getting, got, cleaning, csRun, csTranslating, csTimers>>
lateVars == <<animVars, storeVars>>
otherVars == <<historyVars, writeVars, clientVars, walkVars, lateVars>>
pureVars == <<codecVars, linkVars, groupVars, otherVars>>

NotRun == [done |-> FALSE]
\* an element animateLineTransition has not reached
Untouched == [state |-> "none"]
\* no batch is animated on its own
NoAnimation ==
  /\ animBatch = <<>> /\ thrower = [item |-> 0, at |-> "none"] /\ animElems = <<>>
  /\ animPc = "none" /\ animJ = 0 /\ animI = 0 /\ animCompleted = 0
\* a Translation State as the store sees it: which update of which run it
\* is, and its isTranslating
NoState == [seq |-> 0, run |-> 0, isTranslating |-> FALSE]
\* the Map has no entry for the tab; getTranslationState returns null
NoEntry == [present |-> FALSE, state |-> NoState, url |-> 0, timestamp |-> 0]
Idle == [at |-> "idle", storedState |-> NoEntry]
\* the background script is not looked at
NoStore ==
  /\ translationStates = NoEntry /\ tabUrl = 0 /\ tabStatus = "complete" /\ clock = 0
  /\ inflight = <<>> /\ updating = {} /\ applied = 0 /\ clearedRun = 0
  /\ getting = Idle /\ got = <<>> /\ cleaning = FALSE
  /\ csRun = 0 /\ csTranslating = FALSE /\ csTimers = {}
NoLate ==
  /\ NoAnimation
  /\ NoStore
\* the API client is not looked at
NoClient ==
  /\ urlBase = <<>> /\ urlPath = <<>> /\ joined = NotRun
  /\ attempts = <<>> /\ outcome = NotRun
NoOther ==
  /\ calls = 0
  /\ channelText = <<>> /\ target = Untouched
  /\ NoClient
  /\ textNodes = <<>> /\ textElements = NotRun
  /\ NoLate
\* no function is looked at on its own
NoCall ==
  /\ callBlocks = <<>> /\ callText = <<>> /\ pieceCount = 0 /\ callResults = <<>>
  /\ html = <<>> /\ roundTrip = NotRun
  /\ container = <<>> /\ extracted = NotRun /\ grouped = NotRun
  /\ NoOther

loopVars == <<pc, batchIndex, blockIndex, itemIndex, completedCount, nextBatchIndex>>
fieldVars == <<isTranslating, translationSettings, translationHistory, totalBlocks,
               completedBlocks>>

\* the constructor: fields as assigned there, nothing sent, nothing pending
Constructed ==
  /\ isTranslating = FALSE
  /\ translationSettings = NoSettings
  /\ translationHistory = <<>>
  /\ totalBlocks = 0
  /\ completedBlocks = 0
  /\ run = 0
  /\ pc = "idle"
  /\ batchIndex = 0 /\ blockIndex = 0 /\ itemIndex = 0
  /\ completedCount = 0 /\ nextBatchIndex = 0
  /\ items = [x \in 1..NumItems(page) |-> 0]
  /\ requests = << >>
  /\ elems = [x \in 1..NumItems(page) |-> FreshElement]
  /\ emitted = <<>>
  /\ clearTimers = {}
  /\ revealOrder = <<>>
  /\ startError = "none"
  /\ toggleTimers = 0 /\ toggles = <<>>

Init == page \in Pages /\ Constructed /\ NoCall

\* ------------------------------------------------------------ state updates
\* the message updateTranslationState sends for the current run
StateMsg(r, translating, status, progress, total, done, error, errorType) ==
  [run |-> r, isTranslating |-> translating, status |-> status, progress |-> progress,
   totalBlocks |-> total, completedBlocks |-> done, error |-> error,
   errorType |-> errorType]

\* the message clearTranslationState sends when run r's timer fires
ClearMsg(r) == StateMsg(r, FALSE, "idle", 0, 0, 0, "", "undefined")

\* the 'translating' update sent after a block, with completedCount = done
TranslatingMsg(r, total, done) ==
  StateMsg(r, TRUE, "translating", Progress(done, total), total, done, "", "undefined")

\* the catch block of startTranslation
CatchMsg(r, total, done, error) ==
  StateMsg(r, FALSE, "error", 0, total, done, error.message, "undefined")

\* the success path of startTranslation
CompletedMsg(r, total, done) ==
  StateMsg(r, FALSE, "completed", 100, total, done, "", "undefined")

\* ------------------------------------------------------------------ elements
AddClass(e, c) == [e EXCEPT !.cls = @ \cup {c}]
RemoveClass(e, c) == [e EXCEPT !.cls = @ \ {c}]

\* animateBlockStart over a set of items
animateBlockStart(el, its) ==
  [x \in DOMAIN el |-> IF x \in its THEN AddClass(el[x], "llm-preparing") ELSE el[x]]

\* animateBlockError over a set of items
animateBlockError(el, its) ==
  [x \in DOMAIN el |->
     IF x \in its THEN AddClass(RemoveClass(el[x], "llm-preparing"), "llm-error") ELSE el[x]]

\* animateLineTransition, phase 1
FadeOut(e) == AddClass(RemoveClass(e, "llm-preparing"), "llm-fading-out")

RevealMut(e, originalText, translatedText) ==
  [cls |-> (e.cls \ {"llm-fading-out"}) \cup {"llm-translated"},
   state |-> "translated", content |-> translatedText,
   original |-> translatedText, translated |-> translatedText]
\* animateLineTransition, phases 2 and 3
Reveal(e, originalText, translatedText) ==
  [cls |-> (e.cls \ {"llm-fading-out"}) \cup {"llm-translated"},
   state |-> "translated", content |-> translatedText,
   original |-> originalText, translated |-> translatedText]

\* the class part of clearPreviousTranslationState
clearPreviousTranslationState(el) ==
  [x \in DOMAIN el |-> [el[x] EXCEPT !.cls = @ \ PhaseClasses]]

\* ------------------------------------------------------------------ requests
Inflight == [answered |-> FALSE, result |-> ResultMissing]

\* the promise startNextTranslation put in translationQueue for request id
PromiseOf(id) ==
  IF requests[id].answered THEN translationPromise(requests[id].result) ELSE Pending

Bpr == BlocksPerRequest(translationSettings)

LookaheadMut(bi, nbi, nb) ==
  IF bi + 2 < nb /\ nbi < bi + 2 /\ nbi < nb THEN nbi + 1 ELSE nbi
\* the lookahead test at the head of the batch loop: nextBatchIndex after it
\* (translationQueue.length is nextBatchIndex)
Lookahead(bi, nbi, nb) ==
  IF bi + 2 < nb /\ nbi <= bi + 2 /\ nbi < nb THEN nbi + 1 ELSE nbi

InitialRequestsMut(nb) == nb
\* the two unconditional startNextTranslation calls before the loop
InitialRequests(nb) == IF nb > 1 THEN 2 ELSE 1

\* requests after startNextTranslation has run for batches from..to-1 of run r
Issue(reqs, r, from, to) ==
  [id \in DOMAIN reqs \cup {<<r, b>> : b \in from..(to - 1)} |->
     IF id \in DOMAIN reqs THEN reqs[id] ELSE Inflight]

\* the requests that still matter once their run's coroutine is gone (its
\* settled promises are never awaited again): the unanswered ones
Outstanding(reqs) ==
  [id \in {x \in DOMAIN reqs : ~reqs[x].answered} |-> reqs[id]]

PushHistoryMut(h, entry) ==
  LET h2 == IF Len(h) >= MaxHistory THEN SubSeq(h, 1, MaxHistory - 1) ELSE h
  IN  Append(h2, entry)
\* this.translationHistory after callTranslationAPI's push and slice(-10)
PushHistory(h, entry) ==
  LET h2 == Append(h, entry)
  IN  IF Len(h2) > MaxHistory THEN SubSeq(h2, Len(h2) - MaxHistory + 1, Len(h2)) ELSE h2

CurrentBlock == BatchBlocks(batchIndex, Len(page), Bpr)[blockIndex + 1]
CurrentItem == Offset(page, CurrentBlock) + itemIndex + 1
CurrentBatchLen == Len(BatchBlocks(batchIndex, Len(page), Bpr))

\* --------------------------------------------------------------- the run
BusyMut(translating) == FALSE
\* startTranslation's re-entrancy test
Busy(translating) == translating

\* startTranslation from `this.isTranslating = true` to its first suspension:
\* reset, 'starting', extraction, and either the empty-page failure or the
\* head of translateWithAnimations up to `await translationQueue[0]`
NoItemsMut(pg) == FALSE
\* startTranslation: textElements.length === 0
NoItems(pg) == NumItems(pg) = 0

\* the first 'translating' update of translateWithAnimations (progress: 0)
FirstTranslatingMsg(r, total) ==
  StateMsg(r, TRUE, "translating", 0, total, 0, "", "undefined")

AcceptStart(settings) ==
  LET r == run + 1
      n == Len(page)
      nb == NumBatches(n, BlocksPerRequest(settings))
      issued == Lookahead(0, InitialRequests(nb), nb)
      cleared == clearPreviousTranslationState(elems)
      starting == StateMsg(r, TRUE, "starting", 0, 0, 0, "", "undefined")
  IN  /\ run' = r
      /\ translationSettings' = settings
      /\ translationHistory' = <<>>
      /\ completedBlocks' = 0
      /\ batchIndex' = 0 /\ blockIndex' = 0 /\ itemIndex' = 0
      /\ completedCount' = 0
      /\ revealOrder' = <<>>
      /\ UNCHANGED page
      /\ IF NoItems(page)
         THEN /\ emitted' = <<starting,
                               CatchMsg(r, totalBlocks, 0,
                                        ErrorObj(NoContent, "undefined", 0, FALSE))>>
              /\ clearTimers' = clearTimers \cup {r}
              /\ isTranslating' = FALSE
              /\ startError' = NoContent
              /\ pc' = "idle"
              /\ elems' = cleared
              /\ nextBatchIndex' = 0
              /\ requests' = Outstanding(requests)
              /\ UNCHANGED <<totalBlocks, items>>
         ELSE /\ totalBlocks' = n
              /\ emitted' = <<starting, FirstTranslatingMsg(r, n)>>
              /\ requests' = Issue(Outstanding(requests), r, 0, issued)
              /\ nextBatchIndex' = issued
              /\ items' = [x \in DOMAIN elems |-> elems[x].content]
              /\ elems' = animateBlockStart(cleared,
                                            ItemsOfBatch(page, 0, BlocksPerRequest(settings)))
              /\ isTranslating' = TRUE
              /\ startError' = "none"
              /\ pc' = "await"
              /\ UNCHANGED clearTimers

\* a START_TRANSLATION message: startTranslation(settings)
startTranslation(settings) ==
  IF Busy(isTranslating)
  THEN /\ startError' = AlreadyInProgress
       /\ UNCHANGED <<page, fieldVars, run, loopVars, items, requests, elems, emitted,
                      clearTimers, revealOrder>>
  ELSE IF ValidationErrors[settings] # "none"
  THEN /\ startError' = ValidationErrors[settings]
       /\ UNCHANGED <<page, fieldVars, run, loopVars, items, requests, elems, emitted,
                      clearTimers, revealOrder>>
  ELSE /\ run < RunLimit(page, \E i \in DOMAIN emitted : emitted[i].status = "error")
       /\ AcceptStart(settings)

\* the channel answers request id: callTranslationAPI resumes, pushes to
\* this.translationHistory on success, and the queued promise settles
Response(id, result) ==
  /\ id \in DOMAIN requests
  /\ ~requests[id].answered
  /\ requests' =
       IF id[1] = run /\ pc # "idle"
       THEN [requests EXCEPT ![id] = [answered |-> TRUE, result |-> result]]
       ELSE [x \in DOMAIN requests \ {id} |-> requests[x]]
  /\ translationHistory' =
       IF callTranslationAPI(result).pushed
       THEN PushHistory(translationHistory, [run |-> id[1], batch |-> id[2]])
       ELSE translationHistory
  /\ UNCHANGED <<page, isTranslating, translationSettings, totalBlocks, completedBlocks,
                 run, loopVars, items, elems, emitted, clearTimers, revealOrder,
                 startError>>

\* addGlobalToggleButton: the pending timers after it
addGlobalToggleButton == IF Len(toggles) > 0 THEN toggleTimers ELSE toggleTimers + 1

\* leaving the batch loop body with `done` blocks completed and `em` sent:
\* delay(50) before the next batch, or the end of translateWithAnimations and
\* the success path of startTranslation
AfterBatch(em, done) ==
  IF batchIndex + 1 < NumBatches(Len(page), Bpr)
  THEN /\ pc' = "batchGap"
       /\ emitted' = em
       /\ UNCHANGED <<isTranslating, clearTimers, startError, requests, toggleTimers>>
  ELSE /\ pc' = "idle"
       /\ toggleTimers' = addGlobalToggleButton
       /\ emitted' = em \o <<CompletedMsg(run, totalBlocks, done)>>
       /\ requests' = Outstanding(requests)
       /\ clearTimers' = clearTimers \cup {run}
       /\ isTranslating' = FALSE
       /\ UNCHANGED startError

\* an error leaves translateWithAnimations: catch and finally of startTranslation
Abort(em, error) ==
  /\ pc' = "idle"
  /\ emitted' = em \o <<CatchMsg(run, totalBlocks, completedBlocks, error)>>
  /\ clearTimers' = clearTimers \cup {run}
  /\ isTranslating' = FALSE
  /\ startError' = error.message
  /\ requests' = Outstanding(requests)
  /\ UNCHANGED toggleTimers

RECURSIVE ErrorUpdates(_, _, _)
\* the updateTranslationState calls of the batch.forEach over a failed batch
ErrorUpdates(done, count, total) ==
  IF count = 0 THEN <<>>
  ELSE <<TranslatingMsg(run, total, done + 1)>> \o ErrorUpdates(done + 1, count - 1, total)

\* `await translationQueue[batchIndex]` resumes
Consume ==
  /\ pc = "await"
  /\ LET promise == PromiseOf(<<run, batchIndex>>)
     IN  /\ promise.settled # "pending"
         /\ IF promise.settled = "rejected"
            THEN \* catch (error) of the loop: fatal, re-thrown
                 /\ Abort(emitted, promise.error)
                 /\ UNCHANGED <<elems, completedCount, completedBlocks, blockIndex,
                                itemIndex, revealOrder>>
            ELSE IF promise.success
            THEN \* animateTranslation of the first block begins
                 /\ UNCHANGED requests
                 /\ blockIndex' = 0 /\ itemIndex' = 0
                 /\ LET b == BatchBlocks(batchIndex, Len(page), Bpr)[1]
                        x == Offset(page, b) + 1
                    IN  /\ elems' = [elems EXCEPT ![x] = FadeOut(@)]
                        /\ revealOrder' = Append(revealOrder, b)
                 /\ pc' = "fading"
                 /\ UNCHANGED <<emitted, isTranslating, clearTimers, startError,
                                completedCount, completedBlocks, toggleTimers>>
            ELSE IF promise.error.isFatalError
            THEN \* the 'error' update with errorType, then throw
                 /\ Abort(emitted \o
                            <<StateMsg(run, FALSE, "error",
                                       Progress(completedCount, Len(page)), Len(page),
                                       completedCount, promise.error.message,
                                       promise.error.errorType)>>,
                          promise.error)
                 /\ UNCHANGED <<elems, completedCount, completedBlocks, blockIndex,
                                itemIndex, revealOrder>>
            ELSE \* non-fatal: error animation for the whole batch
                 /\ elems' = animateBlockError(elems, ItemsOfBatch(page, batchIndex, Bpr))
                 /\ completedCount' = completedCount + CurrentBatchLen
                 /\ completedBlocks' = completedCount + CurrentBatchLen
                 /\ AfterBatch(emitted \o ErrorUpdates(completedCount, CurrentBatchLen,
                                                       Len(page)),
                               completedCount + CurrentBatchLen)
                 /\ UNCHANGED <<blockIndex, itemIndex, revealOrder>>
  /\ UNCHANGED <<page, translationSettings, translationHistory, totalBlocks, run,
                 batchIndex, nextBatchIndex, items>>

\* the translated text animateTranslation hands to animateLineTransition for
\* item x: the response's text, or item.originalText after the fallback
TranslatedText(x) ==
  IF PromiseOf(<<run, batchIndex>>).texts = "translated" THEN run ELSE items[x]

\* animateLineTransition after delay(150): restoration record, content, class
RevealItem ==
  /\ pc = "fading"
  /\ elems' = [elems EXCEPT ![CurrentItem] =
                 Reveal(@, items[CurrentItem], TranslatedText(CurrentItem))]
  /\ pc' = "revealed"
  /\ UNCHANGED <<page, fieldVars, run, batchIndex, blockIndex, itemIndex, completedCount,
                 nextBatchIndex, items, requests, emitted, clearTimers, revealOrder,
                 startError>>

\* animateLineTransition after delay(200): phase 4
SettleItem ==
  /\ pc = "revealed"
  /\ elems' = [elems EXCEPT ![CurrentItem] = AddClass(@, "llm-settled")]
  /\ pc' = "stagger"
  /\ UNCHANGED <<page, fieldVars, run, batchIndex, blockIndex, itemIndex, completedCount,
                 nextBatchIndex, items, requests, emitted, clearTimers, revealOrder,
                 startError>>

\* animateTranslation after delay(10): the next item of the block, or the
\* block's bookkeeping and the 'translating' update
AfterStagger ==
  /\ pc = "stagger"
  /\ IF itemIndex + 1 < page[CurrentBlock]
     THEN /\ itemIndex' = itemIndex + 1
          /\ elems' = [elems EXCEPT ![CurrentItem + 1] = FadeOut(@)]
          /\ pc' = "fading"
          /\ UNCHANGED <<completedCount, completedBlocks, emitted, isTranslating,
                         clearTimers, startError, requests, toggleTimers>>
     ELSE /\ completedCount' = completedCount + 1
          /\ completedBlocks' = completedCount + 1
          /\ UNCHANGED <<itemIndex, elems>>
          /\ IF blockIndex < CurrentBatchLen - 1
             THEN /\ pc' = "blockGap"
                  /\ emitted' = Append(emitted,
                                       TranslatingMsg(run, Len(page), completedCount + 1))
                  /\ UNCHANGED <<isTranslating, clearTimers, startError, requests,
                                 toggleTimers>>
             ELSE AfterBatch(Append(emitted,
                                    TranslatingMsg(run, Len(page), completedCount + 1)),
                             completedCount + 1)
  /\ UNCHANGED <<page, translationSettings, translationHistory, totalBlocks, run,
                 batchIndex, blockIndex, nextBatchIndex, items, revealOrder>>

\* the block loop after delay(15): animateTranslation of the next block
AfterBlockGap ==
  /\ pc = "blockGap"
  /\ blockIndex' = blockIndex + 1
  /\ itemIndex' = 0
  /\ LET b == BatchBlocks(batchIndex, Len(page), Bpr)[blockIndex + 2]
         x == Offset(page, b) + 1
     IN  /\ elems' = [elems EXCEPT ![x] = FadeOut(@)]
         /\ revealOrder' = Append(revealOrder, b)
  /\ pc' = "fading"
  /\ UNCHANGED <<page, fieldVars, run, batchIndex, completedCount, nextBatchIndex, items,
                 requests, emitted, clearTimers, startError>>

\* the batch loop after delay(50): animateBlockStart of the next batch, the
\* lookahead request, and `await translationQueue[batchIndex]`
AfterBatchGap ==
  /\ pc = "batchGap"
  /\ batchIndex' = batchIndex + 1
  /\ blockIndex' = 0 /\ itemIndex' = 0
  /\ elems' = animateBlockStart(elems, ItemsOfBatch(page, batchIndex + 1, Bpr))
  /\ LET nbi == Lookahead(batchIndex + 1, nextBatchIndex, NumBatches(Len(page), Bpr))
     IN  /\ nextBatchIndex' = nbi
         /\ requests' = Issue(requests, run, nextBatchIndex, nbi)
  /\ pc' = "await"
  /\ UNCHANGED <<page, fieldVars, run, completedCount, items, emitted, clearTimers,
                 revealOrder, startError>>

\* the setTimeout of startTranslation fires: clearTranslationState
ClearFire(r) ==
  /\ r \in clearTimers
  /\ clearTimers' = clearTimers \ {r}
  /\ emitted' = Append(emitted, ClearMsg(r))
  /\ UNCHANGED <<page, fieldVars, run, loopVars, items, requests, elems, revealOrder,
                 startError>>

\* the timeout of addGlobalToggleButton fires: createToggleButton up to the
\* click handler's registration
createToggleButton ==
  /\ toggleTimers > 0
  /\ toggleTimers' = toggleTimers - 1
  /\ toggles' = Append(toggles, FALSE)
  /\ UNCHANGED <<page, fieldVars, run, loopVars, items, requests, elems, emitted,
                 clearTimers, revealOrder, startError>>

\* the click handler's forEach body for one element
ToggleElement(e, globalShowingOriginals) ==
  IF e.state \notin {"translated", "showing-original"} THEN e
  ELSE IF globalShowingOriginals
  THEN IF e.original = -1 THEN e
       ELSE [e EXCEPT !.content = e.original, !.state = "showing-original",
                      !.cls = @ \cup {"llm-showing-original"}]
  ELSE IF e.translated = -1 THEN e
       ELSE [e EXCEPT !.content = e.translated, !.state = "translated",
                      !.cls = @ \ {"llm-showing-original"}]

\* a click on toggle button b
Click(b) ==
  /\ toggles' = [toggles EXCEPT ![b] = ~@]
  /\ elems' = [x \in DOMAIN elems |-> ToggleElement(elems[x], ~toggles[b])]
  /\ UNCHANGED <<page, fieldVars, run, loopVars, items, requests, emitted, clearTimers,
                 revealOrder, startError, toggleTimers>>

Next ==
  \/ (\E settings \in SettingsInputs : startTranslation(settings))
       /\ UNCHANGED <<toggleVars, pureVars>>
  \/ (\E id \in DOMAIN requests : \E result \in ChannelResults : Response(id, result))
       /\ UNCHANGED <<toggleVars, pureVars>>
  \/ Consume /\ UNCHANGED <<toggles, pureVars>>
  \/ RevealItem /\ UNCHANGED <<toggleVars, pureVars>>
  \/ SettleItem /\ UNCHANGED <<toggleVars, pureVars>>
  \/ AfterStagger /\ UNCHANGED <<toggles, pureVars>>
  \/ AfterBlockGap /\ UNCHANGED <<toggleVars, pureVars>>
  \/ AfterBatchGap /\ UNCHANGED <<toggleVars, pureVars>>
  \/ (\E r \in clearTimers : ClearFire(r)) /\ UNCHANGED <<toggleVars, pureVars>>
  \/ createToggleButton /\ UNCHANGED pureVars
  \/ (\E b \in DOMAIN toggles : Click(b)) /\ UNCHANGED pureVars

Spec == Init /\ [][Next]_vars

\* what the host runs without the user: the channel answers every request,
\* promise continuations and timers fire; startTranslation and clicks on the
\* toggle button are the user's and may never come
Scheduled ==
  \/ (\E id \in DOMAIN requests : \E result \in ChannelResults : Response(id, result))
       /\ UNCHANGED <<toggleVars, pureVars>>
  \/ Consume /\ UNCHANGED <<toggles, pureVars>>
  \/ RevealItem /\ UNCHANGED <<toggleVars, pureVars>>
  \/ SettleItem /\ UNCHANGED <<toggleVars, pureVars>>
  \/ AfterStagger /\ UNCHANGED <<toggles, pureVars>>
  \/ AfterBlockGap /\ UNCHANGED <<toggleVars, pureVars>>
  \/ AfterBatchGap /\ UNCHANGED <<toggleVars, pureVars>>
  \/ (\E r \in clearTimers : ClearFire(r)) /\ UNCHANGED <<toggleVars, pureVars>>
  \/ createToggleButton /\ UNCHANGED pureVars

SpecLive == Spec /\ WF_vars(Scheduled)

\* ------------------------------------------- translateMultipleBlocks alone
\* the text of the k-th item of a batch of plain items
PlainText(k) == <<"t", ToString(k)>>

\* the batch of plain items with the given numbers of items per block
PlainBlocks(shape) ==
  [i \in DOMAIN shape |->
     [k \in 1..shape[i] |-> PlainItem(PlainText(Offset(shape, i) + k))]]

CodecShapes ==
  UNION {[1..n -> 1..MaxCodecItems] : n \in 1..MaxCodecBlocks}

\* an item whose text holds the item separator token, and one with a link
TokenItem == PlainItem(<<"a">> \o ItemToken \o <<"b">>)
LinkHTML ==
  <<"<", "a", " ", "h", "r", "e", "f", "=", "\"", "u", "\"", ">", "c", "<", "/", "a", ">",
    " ", "x">>
LinkItem == Item(<<"c", " ", "x">>, TRUE, LinkHTML)

CodecInputs ==
  {PlainBlocks(shape) : shape \in CodecShapes}
    \cup {<<<<TokenItem>>>>, <<<<PlainItem(PlainText(1))>>, <<TokenItem>>>>,
          <<<<LinkItem>>>>, <<<<PlainItem(PlainText(1))>>, <<LinkItem, PlainItem(PlainText(3))>>>>}

\* what a response text is put together from
Pieces ==
  {<<"a">>, <<" ">>, <<NL>>, <<NL, NL>>, <<".">>, <<".", " ">>,
   BlockToken, ItemToken, BlockSeparator, ItemSeparator}

InitCodec ==
  /\ page = <<>>
  /\ Constructed
  /\ NoOther
  /\ callBlocks \in CodecInputs
  /\ callText = <<>>
  /\ pieceCount = 0
  /\ callResults = <<>>
  /\ html = <<>> /\ roundTrip = NotRun
  /\ container = <<>> /\ extracted = NotRun /\ grouped = NotRun

\* the channel's answer grows by one piece
AppendPiece(piece) ==
  /\ callResults = <<>>
  /\ pieceCount < MaxPieces
  /\ callText' = callText \o piece
  /\ pieceCount' = pieceCount + 1
  /\ UNCHANGED <<viewVars, otherVars, linkVars, groupVars, callBlocks, callResults>>

\* the channel answers with the payload it was given
IdentityChannel ==
  /\ callResults = <<>>
  /\ pieceCount = 0
  /\ callText' = CombinedText(callBlocks)
  /\ pieceCount' = MaxPieces
  /\ UNCHANGED <<viewVars, otherVars, linkVars, groupVars, callBlocks, callResults>>

\* translateMultipleBlocks decodes the answer and returns
Decode ==
  /\ callResults = <<>>
  /\ callResults' = DecodeBlocks(callBlocks, callText)
  /\ UNCHANGED <<viewVars, otherVars, linkVars, groupVars, callBlocks, callText, pieceCount>>

NextCodec ==
  \/ \E piece \in Pieces : AppendPiece(piece)
  \/ IdentityChannel
  \/ Decode

SpecCodec == InitCodec /\ [][NextCodec]_vars

\* ------------------------------------------------------ the link codec alone
\* what an item's markup is put together from: anchors with href in two
\* spellings, an anchor without href, the end tag, a letter and a blank
OpenAnchor == <<"<", "a", " ", "h", "r", "e", "f", "=", "\"", "u", "\"", ">">>
OpenAnchorOdd ==
  <<"<", "A", " ", " ", "H", "R", "E", "F", "=", "'", "v", "'", " ", "i", "d", "=", "\"",
    "i", "\"", ">">>
CloseAnchor == <<"<", "/", "a", ">">>
HtmlPieces == {OpenAnchor, OpenAnchorOdd, <<"<", "a", ">">>, CloseAnchor, <<"c">>, <<" ">>}

InitLinks ==
  /\ page = <<>>
  /\ Constructed
  /\ NoOther
  /\ callBlocks = <<>> /\ callText = <<>> /\ pieceCount = 0 /\ callResults = <<>>
  /\ html = <<>>
  /\ roundTrip = NotRun
  /\ container = <<>> /\ extracted = NotRun /\ grouped = NotRun

\* the item's innerHTML grows by one piece
AppendHtml(piece) ==
  /\ ~roundTrip.done
  /\ pieceCount < MaxLinkPieces
  /\ html' = html \o piece
  /\ pieceCount' = pieceCount + 1
  /\ UNCHANGED <<viewVars, otherVars, groupVars, callBlocks, callText, callResults, roundTrip>>

\* the encoded text, its linkMap and what restoreLinksFromPlaceholders makes
\* of them
Restored(encoded) ==
  [done |-> TRUE, text |-> encoded.text, linkMap |-> encoded.linkMap,
   restored |-> restoreLinksFromPlaceholders(encoded.text, encoded.linkMap)]

\* replaceLinksWithPlaceholders with an empty linkMap, the text through an
\* identity channel, then restoreLinksFromPlaceholders with that linkMap
RoundTrip ==
  /\ ~roundTrip.done
  /\ roundTrip' = Restored(replaceLinksWithPlaceholders(html, <<>>))
  /\ UNCHANGED <<viewVars, otherVars, codecVars, groupVars, html>>

NextLinks ==
  \/ \E piece \in HtmlPieces : AppendHtml(piece)
  \/ RoundTrip

SpecLinks == InitLinks /\ [][NextLinks]_vars

\* ------------------------------------------- extraction and grouping alone
Chars5 == <<"H", "e", "l", "l", "o">>
Chars14 == <<"W", "o", "r", "l", "d", " ", "o", "f", " ", "t", "e", "s", "t", "s">>
Chars11 == <<"H", "e", "l", "l", "o", " ", "w", "o", "r", "l", "d">>
\* the elements a content root is put together from: a short and a long
\* heading, and paragraphs in the root, in a list and deep inside the list
Nodes ==
  {Node("H1", "root", Chars5), Node("P", "root", Chars14), Node("H1", "root", Chars11),
   Node("P", "list", Chars11), Node("P", "nested", Chars14)}

InitGroup ==
  /\ page = <<>>
  /\ Constructed
  /\ NoOther
  /\ callBlocks = <<>> /\ callText = <<>> /\ pieceCount = 0 /\ callResults = <<>>
  /\ html = <<>> /\ roundTrip = NotRun
  /\ container = <<>> /\ extracted = NotRun /\ grouped = NotRun

\* the content root holds one more element
AppendNode(node) ==
  /\ ~extracted.done
  /\ Len(container) < MaxNodes
  /\ container' = Append(container, node)
  /\ UNCHANGED <<viewVars, otherVars, codecVars, linkVars, extracted, grouped>>

\* const textElements = this.extractTextElements(contentArea)
Extract ==
  /\ ~extracted.done
  /\ extracted' = [done |-> TRUE, textElements |-> extractTextElements(container)]
  /\ UNCHANGED <<viewVars, otherVars, codecVars, linkVars, container, grouped>>

\* const textBlocks = this.groupIntoBlocks(textElements)
Group ==
  /\ extracted.done /\ ~grouped.done
  /\ grouped' = [done |-> TRUE, textBlocks |-> groupIntoBlocks(extracted.textElements)]
  /\ UNCHANGED <<viewVars, otherVars, codecVars, linkVars, container, extracted>>

NextGroup ==
  \/ \E node \in Nodes : AppendNode(node)
  \/ Extract
  \/ Group

SpecGroup == InitGroup /\ [][NextGroup]_vars

\* ------------------------------------ extraction over nested elements alone
\* the elements of a content root with an inline element inside a paragraph:
\* <p>..<b>..</b>..</p><p>..<script>..</script>..</p>
TreeParent == [p |-> "root", b |-> "p", q |-> "root", s |-> "q"]
TreeTag == [p |-> "P", b |-> "B", q |-> "P", s |-> "SCRIPT"]
TreeElements == DOMAIN TreeParent

\* element e is x or lies inside x
RECURSIVE Within(_, _)
Within(e, x) == e = x \/ (e \in TreeElements /\ Within(TreeParent[e], x))

TextNode(parentElement, text) == [parentElement |-> parentElement, text |-> text]

\* acceptNode of getAllTextNodesInElement's walker; its cap of 50 text nodes
\* is beyond the trees looked at
CollectsNode(node) ==
  /\ TreeTag[node.parentElement] \notin {"SCRIPT", "STYLE", "NOSCRIPT", "SVG", "CANVAS"}
  /\ Len(Trim(node.text)) # 0

\* getAllTextNodesInElement: the positions of the text nodes it returns
getAllTextNodesInElement(nodes, element) ==
  {i \in DOMAIN nodes : Within(nodes[i].parentElement, element) /\ CollectsNode(nodes[i])}

\* allTextNodes.map(n => n.textContent || '').join('').trim()
RECURSIVE JoinNodes(_, _, _)
JoinNodes(nodes, from, picked) ==
  IF from > Len(nodes) THEN <<>>
  ELSE (IF from \in picked THEN nodes[from].text ELSE <<>>) \o JoinNodes(nodes, from + 1, picked)
FullText(nodes, element) == Trim(JoinNodes(nodes, 1, getAllTextNodesInElement(nodes, element)))

\* acceptNode of extractTextElements' walker, for elements without
\* aria-hidden, llm-no-translate or hiding styles
acceptNode(node) ==
  /\ Len(Trim(node.text)) >= 5
  /\ TreeTag[node.parentElement]
       \notin {"SCRIPT", "STYLE", "NOSCRIPT", "SVG", "CANVAS", "CODE", "PRE"}

\* processedElements.has(parent)
Processed(parent, processedElements) == parent \in processedElements

\* the while loop of extractTextElements from text node i on
RECURSIVE WalkFrom(_, _, _)
WalkFrom(nodes, i, processedElements) ==
  IF i > Len(nodes) THEN <<>>
  ELSE LET parent == nodes[i].parentElement
       IN  IF acceptNode(nodes[i]) /\ ~Processed(parent, processedElements)
              /\ Len(FullText(nodes, parent)) >= 10
           THEN <<[node |-> i, allTextNodes |-> getAllTextNodesInElement(nodes, parent),
                   originalText |-> FullText(nodes, parent), element |-> parent]>>
                  \o WalkFrom(nodes, i + 1, processedElements \cup {parent})
           ELSE WalkFrom(nodes, i + 1, processedElements)

\* every element's text nodes, those of the elements inside it included, are
\* consecutive in document order
WellFormed(nodes) ==
  \A x \in TreeElements : \A i, j, k \in DOMAIN nodes :
    (i < j /\ j < k /\ Within(nodes[i].parentElement, x) /\ Within(nodes[k].parentElement, x))
      => Within(nodes[j].parentElement, x)

TreeTexts == {<<" ">>, <<"o", "k">>, Chars5, Chars11}
TreeNodes == {TextNode(e, t) : e \in TreeElements, t \in TreeTexts}

InitWalk ==
  /\ page = <<>>
  /\ Constructed
  /\ NoCall

\* the content root holds one more text node
AppendTextNode(node) ==
  /\ ~textElements.done
  /\ Len(textNodes) < MaxTextNodes
  /\ WellFormed(Append(textNodes, node))
  /\ textNodes' = Append(textNodes, node)
  /\ UNCHANGED <<viewVars, codecVars, linkVars, groupVars, lateVars, historyVars, writeVars,
                 clientVars, textElements>>

\* extractTextElements(container) over these text nodes
Walk ==
  /\ ~textElements.done
  /\ textElements' = [done |-> TRUE, items |-> WalkFrom(textNodes, 1, {})]
  /\ UNCHANGED <<viewVars, codecVars, linkVars, groupVars, lateVars, historyVars, writeVars,
                 clientVars, textNodes>>

NextWalk ==
  \/ \E node \in TreeNodes : AppendTextNode(node)
  \/ Walk

SpecWalk == InitWalk /\ [][NextWalk]_vars

\* ------------------------------------------- the translation history alone
InitHistory ==
  /\ page = <<>>
  /\ Constructed
  /\ NoCall

\* one callTranslationAPI call on the machine, answered with `result`; the
\* entry records which call it was
Call(result) ==
  /\ calls < MaxCalls
  /\ calls' = calls + 1
  /\ translationHistory' =
       IF callTranslationAPI(result).pushed
       THEN PushHistory(translationHistory, [run |-> run, batch |-> calls])
       ELSE translationHistory
  /\ UNCHANGED <<page, isTranslating, translationSettings, totalBlocks, completedBlocks,
                 run, loopVars, items, requests, elems, emitted, clearTimers,
                 revealOrder, startError, toggleVars, codecVars, linkVars, groupVars, lateVars,
                 writeVars, clientVars, walkVars>>

NextHistory == \E result \in ChannelResults : Call(result)

SpecHistory == InitHistory /\ [][NextHistory]_vars

\* ------------------------------------------------ one text replacement alone
OpenTag == <<"<", "a", " ">>
CloseTag == <<"<", "/", "a", ">">>
ScriptTag == <<"<", "s", "c", "r", "i", "p", "t", ">">>
TextPieces == {OpenTag, CloseTag, ScriptTag, <<"x">>}

\* item.originalText of a plain-text item (its innerHTML is the same string)
OriginalText == <<"o", "r", "i", "g">>

\* the element after `element.innerHTML = text` or `element.textContent = text`
Written(e, asMarkup, text) == [e EXCEPT !.asMarkup = asMarkup, !.content = text]

\* the text replacement of animateLineTransition and of the click handler's
\* "show translated" branch
SetTranslated(e, text) ==
  IF Includes(text, OpenTag) /\ Includes(text, CloseTag)
  THEN Written(e, TRUE, text)
  ELSE Written(e, FALSE, text)

InitWrite ==
  /\ page = <<>>
  /\ Constructed
  /\ NoCall

\* the channel's text for the item grows by one piece
AppendText(piece) ==
  /\ target.state = "none"
  /\ pieceCount < MaxTextPieces
  /\ channelText' = channelText \o piece
  /\ pieceCount' = pieceCount + 1
  /\ UNCHANGED <<viewVars, historyVars, clientVars, walkVars, linkVars, groupVars, lateVars,
                 callBlocks, callText, callResults, target>>

\* animateTranslation's `translatedTexts[i] || item.originalText`, then phase 2
\* of animateLineTransition
RevealText ==
  /\ target.state = "none"
  /\ LET text == IF channelText = <<>> THEN OriginalText ELSE channelText
     IN  target' = SetTranslated([state |-> "translated", original |-> OriginalText,
                                  translated |-> text, asMarkup |-> FALSE,
                                  content |-> OriginalText], text)
  /\ UNCHANGED <<viewVars, historyVars, clientVars, walkVars, linkVars, groupVars, lateVars,
                 codecVars, channelText>>

\* a click on the toggle button, for this element
ToggleText ==
  /\ target.state # "none"
  /\ target' =
       IF target.state = "translated"
       THEN [Written(target, FALSE, target.original) EXCEPT !.state = "showing-original"]
       ELSE [SetTranslated(target, target.translated) EXCEPT !.state = "translated"]
  /\ UNCHANGED <<viewVars, historyVars, clientVars, walkVars, linkVars, groupVars, lateVars,
                 codecVars, channelText>>

NextWrite ==
  \/ \E piece \in TextPieces : AppendText(piece)
  \/ RevealText
  \/ ToggleText

SpecWrite == InitWrite /\ [][NextWrite]_vars

\* ------------------------------------------------------ the API client alone
Slash == "/"
\* base.replace(/\/+$/, '')
StripTrailingSlashes(s) == SubSeq(s, 1, MaxOf({i \in 1..Len(s) : s[i] # Slash}))
\* path.replace(/^\/+/, '')
StripLeadingSlashes(s) ==
  IF \A i \in 1..Len(s) : s[i] = Slash THEN <<>>
  ELSE SubSeq(s, MinOf({i \in 1..Len(s) : s[i] # Slash}), Len(s))

joinUrlMut(base, path) ==
  StripTrailingSlashes(base) \o <<Slash>> \o StripLeadingSlashes(path)
\* APIClient.joinUrl
joinUrl(base, path) ==
  IF base = <<>> \/ path = <<>> THEN (IF base # <<>> THEN base ELSE path)
  ELSE LET cleanBase == StripTrailingSlashes(base)
           cleanPath == StripLeadingSlashes(path)
       IN  IF cleanPath = <<>> THEN cleanBase ELSE cleanBase \o <<Slash>> \o cleanPath

\* 'chat/completions', shortened
ChatCompletions == <<"c">>

\* what a fetch can come to: an HTTP status, a network error or the abort of
\* the 30 s timeout
FetchStatuses == {200, 400, 401, 404, 429, 500, 503}
FetchOutcomes ==
  {[kind |-> "response", status |-> st] : st \in FetchStatuses}
    \cup {[kind |-> "network", status |-> 0], [kind |-> "timeout", status |-> 0]}

\* chatCompletion's catch for errors without a status, through translate's catch
ThrownFailure(message, type) ==
  ChannelResult(TRUE, FALSE, FALSE, message, type, 0, "true")

\* APIClient.translate from the moment its one fetch settles
translate(fetched) ==
  IF fetched.kind = "timeout" THEN ThrownFailure("Request timeout after 30000ms", "timeout")
  ELSE IF fetched.kind = "network"
  THEN ThrownFailure("Network error: Failed to fetch", "network")
  ELSE IF fetched.status = 200 THEN ResultOk
  ELSE HttpFailure(fetched.status)

UrlChars == {"a", Slash}
Urls == UNION {[1..n -> UrlChars] : n \in 0..MaxUrlLen}

InitClient ==
  /\ page = <<>>
  /\ Constructed
  /\ callBlocks = <<>> /\ callText = <<>> /\ pieceCount = 0 /\ callResults = <<>>
  /\ html = <<>> /\ roundTrip = NotRun
  /\ container = <<>> /\ extracted = NotRun /\ grouped = NotRun
  /\ calls = 0
  /\ channelText = <<>> /\ target = Untouched
  /\ textNodes = <<>> /\ textElements = NotRun
  /\ urlBase \in Urls /\ urlPath \in Urls
  /\ joined = NotRun
  /\ attempts = <<>> /\ outcome = NotRun
  /\ NoLate

\* APIClient.joinUrl(urlBase, urlPath)
JoinUrl ==
  /\ ~joined.done
  /\ joined' = [done |-> TRUE, url |-> joinUrl(urlBase, urlPath)]
  /\ UNCHANGED <<viewVars, codecVars, linkVars, groupVars, lateVars, historyVars, writeVars,
                 walkVars, urlBase, urlPath, attempts, outcome>>

\* APIClient.translate with config.apiEndpoint = urlBase, whose fetch (if it
\* comes to one) settles as `fetched`: chatCompletion throws before the fetch
\* when the endpoint is empty, and fetches once otherwise
Translate(fetched) ==
  /\ ~outcome.done
  /\ IF urlBase = <<>>
     THEN /\ outcome' = [done |-> TRUE, result |-> ResultUnknown]
          /\ UNCHANGED attempts
     ELSE /\ attempts' = Append(attempts, [url |-> joinUrl(urlBase, ChatCompletions),
                                           fetched |-> fetched])
          /\ outcome' = [done |-> TRUE, result |-> translate(fetched)]
  /\ UNCHANGED <<viewVars, codecVars, linkVars, groupVars, lateVars, historyVars, writeVars,
                 walkVars, urlBase, urlPath, joined>>

NextClient ==
  \/ JoinUrl
  \/ \E fetched \in FetchOutcomes : Translate(fetched)

SpecClient == InitClient /\ [][NextClient]_vars

\* ------------------------------------------- the animation of a batch alone
\* the DOM operations of animateLineTransition that can throw on an element
\* the page has tampered with: the classList calls of phase 1, the
\* setAttribute calls of phase 2, the content assignment inside the try
\* block, and the classList call of phase 4
ThrowPoints == {"fadeOut", "record", "replace", "settle"}
NoThrower == [item |-> 0, at |-> "none"]
Throws(x, at) == thrower = [item |-> x, at |-> at]

\* the batches looked at: 1..MaxAnimBlocks blocks of 1..MaxAnimItems items
AnimBatches ==
  UNION {[1..n -> 1..MaxAnimItems] : n \in 1..MaxAnimBlocks}

\* the element of item i of block j (both counted from 0)
LineOf(j, i) == Offset(animBatch, j + 1) + i + 1

\* the success branch of the batch loop begins, after animateBlockStart has
\* run for every block of the batch
InitAnimate ==
  /\ page = <<>>
  /\ Constructed
  /\ callBlocks = <<>> /\ callText = <<>> /\ pieceCount = 0 /\ callResults = <<>>
  /\ html = <<>> /\ roundTrip = NotRun
  /\ container = <<>> /\ extracted = NotRun /\ grouped = NotRun
  /\ calls = 0
  /\ channelText = <<>> /\ target = Untouched
  /\ NoClient
  /\ textNodes = <<>> /\ textElements = NotRun
  /\ NoStore
  /\ animBatch \in AnimBatches
  /\ thrower \in {NoThrower}
                   \cup [item : 1..NumItems(animBatch), at : ThrowPoints]
  /\ animElems = [x \in 1..NumItems(animBatch) |->
                    [cls |-> {"llm-preparing"}, written |-> "none"]]
  /\ animPc = "consumed" /\ animJ = 0 /\ animI = 0 /\ animCompleted = 0

\* the block loop after animateTranslation of block j has returned or its
\* rejection has been caught: completedCount++ and the delay before the next
\* block, or the end of the batch
BlockEnd(j) ==
  /\ animCompleted' = animCompleted + 1
  /\ animPc' = IF j + 1 < Len(animBatch) THEN "blockGap" ELSE "batchDone"

\* animateLineTransition for item i of block j, up to delay(150)
LineStart(j, i) ==
  /\ animJ' = j /\ animI' = i
  /\ IF Throws(LineOf(j, i), "fadeOut")
     THEN BlockEnd(j) /\ UNCHANGED animElems
     ELSE /\ animElems' = [animElems EXCEPT ![LineOf(j, i)] = FadeOut(@)]
          /\ animPc' = "fading"
          /\ UNCHANGED animCompleted

\* `await translationQueue[batchIndex]` has resumed with a success
StartBatch ==
  /\ animPc = "consumed"
  /\ LineStart(0, 0)
  /\ UNCHANGED <<animBatch, thrower>>

\* animateLineTransition after delay(150): phases 2 and 3
LineReveal ==
  /\ animPc = "fading"
  /\ IF Throws(LineOf(animJ, animI), "record")
     THEN BlockEnd(animJ) /\ UNCHANGED animElems
     ELSE /\ animElems' =
               [animElems EXCEPT ![LineOf(animJ, animI)] =
                  [cls |-> (@.cls \ {"llm-fading-out"}) \cup {"llm-translated"},
                   written |-> IF Throws(LineOf(animJ, animI), "replace")
                               THEN "fallback" ELSE "replacement"]]
          /\ animPc' = "revealed"
          /\ UNCHANGED animCompleted
  /\ UNCHANGED <<animBatch, thrower, animJ, animI>>

\* animateLineTransition after delay(200): phase 4
LineSettle ==
  /\ animPc = "revealed"
  /\ IF Throws(LineOf(animJ, animI), "settle")
     THEN BlockEnd(animJ) /\ UNCHANGED animElems
     ELSE /\ animElems' = [animElems EXCEPT ![LineOf(animJ, animI)] =
                             AddClass(@, "llm-settled")]
          /\ animPc' = "stagger"
          /\ UNCHANGED animCompleted
  /\ UNCHANGED <<animBatch, thrower, animJ, animI>>

\* animateTranslation after delay(10): the next item, or the block is done
LineStagger ==
  /\ animPc = "stagger"
  /\ IF animI + 1 < animBatch[animJ + 1]
     THEN LineStart(animJ, animI + 1)
     ELSE BlockEnd(animJ) /\ UNCHANGED <<animElems, animJ, animI>>
  /\ UNCHANGED <<animBatch, thrower>>

\* the block loop after delay(15)
BlockGap ==
  /\ animPc = "blockGap"
  /\ LineStart(animJ + 1, 0)
  /\ UNCHANGED <<animBatch, thrower>>

NextAnimate ==
  \/ StartBatch /\ UNCHANGED <<viewVars, codecVars, linkVars, groupVars, historyVars,
                                writeVars, clientVars, walkVars, storeVars>>
  \/ LineReveal /\ UNCHANGED <<viewVars, codecVars, linkVars, groupVars, historyVars,
                                writeVars, clientVars, walkVars, storeVars>>
  \/ LineSettle /\ UNCHANGED <<viewVars, codecVars, linkVars, groupVars, historyVars,
                                writeVars, clientVars, walkVars, storeVars>>
  \/ LineStagger /\ UNCHANGED <<viewVars, codecVars, linkVars, groupVars, historyVars,
                                 writeVars, clientVars, walkVars, storeVars>>
  \/ BlockGap /\ UNCHANGED <<viewVars, codecVars, linkVars, groupVars, historyVars,
                              writeVars, clientVars, walkVars, storeVars>>

SpecAnimate == InitAnimate /\ [][NextAnimate]_vars

\* ------------------------------------- the background state store alone
\* BrowserAPI.isFirefox: the Chrome build is looked at
IsFirefox == FALSE
TabUrls == {1, 2}
\* the clock advances by a little more than half of maxAge at a time
TickMinutes == MaxAgeMinutes \div 2 + 1

\* changeInfo of chrome.tabs.onUpdated: its status ("none": absent), and
\* whether it carries url and title; Chrome puts url in it only when the URL
\* has changed
ChangeInfo(status, url, title) == [status |-> status, url |-> url, title |-> title]

shouldClearTranslationState(changeInfo, isFirefox) ==
  \/ changeInfo.status = "loading" /\ changeInfo.url
  \/ /\ isFirefox
     /\ \/ changeInfo.status = "loading"
        \/ changeInfo.status = "complete" /\ changeInfo.url
        \/ changeInfo.url /\ changeInfo.status = "none"
        \/ changeInfo.title /\ changeInfo.url

\* the chrome.tabs.onUpdated listener: the Map entry after it
onUpdated(changeInfo) ==
  IF shouldClearTranslationState(changeInfo, IsFirefox) /\ translationStates.present
  THEN NoEntry ELSE translationStates

\* enhancedState: url is 0 when the fallback stored the state without one
Entry(state, url, timestamp) ==
  [present |-> TRUE, state |-> state, url |-> url, timestamp |-> timestamp]

ExpiredMut(storedState, now) == FALSE
\* storedState.timestamp && Date.now() - storedState.timestamp > maxAge
Expired(storedState, now) == now - storedState.timestamp > MaxAgeMinutes

\* the messages of updateTranslationState and clearTranslationState of the
\* content script; timerOf records whose timer sent the CLEAR (the message
\* itself carries the tab id only)
UpdateMessage(state) ==
  [action |-> "UPDATE_TRANSLATION_STATE", state |-> state, timerOf |-> 0]
ClearMessage(r) ==
  [action |-> "CLEAR_TRANSLATION_STATE", state |-> NoState, timerOf |-> r]

\* the updates of a run: isTranslating true, then false
UpdateState(r, translating) ==
  [seq |-> IF translating THEN 2 * r - 1 ELSE 2 * r, run |-> r,
   isTranslating |-> translating]

InitStore ==
  /\ page = <<>>
  /\ Constructed
  /\ callBlocks = <<>> /\ callText = <<>> /\ pieceCount = 0 /\ callResults = <<>>
  /\ html = <<>> /\ roundTrip = NotRun
  /\ container = <<>> /\ extracted = NotRun /\ grouped = NotRun
  /\ calls = 0
  /\ channelText = <<>> /\ target = Untouched
  /\ NoClient
  /\ textNodes = <<>> /\ textElements = NotRun
  /\ NoAnimation
  /\ translationStates = NoEntry /\ tabUrl = 1 /\ tabStatus = "complete" /\ clock = 0
  /\ inflight = <<>> /\ updating = {} /\ applied = 0 /\ clearedRun = 0
  /\ getting = Idle /\ got = <<>> /\ cleaning = FALSE
  /\ csRun = 0 /\ csTranslating = FALSE /\ csTimers = {}

\* startTranslation of the page's content script is accepted: the run's
\* updates with isTranslating: true, taken as one
CsStart ==
  /\ tabUrl # 0 /\ tabStatus = "complete"
  /\ ~csTranslating /\ csRun < MaxStoreRuns /\ Len(inflight) < MaxInflight
  /\ csRun' = csRun + 1
  /\ csTranslating' = TRUE
  /\ inflight' = Append(inflight,
                        UpdateMessage(UpdateState(csRun + 1, TRUE)))
  /\ UNCHANGED <<translationStates, tabUrl, tabStatus, clock, updating, applied, clearedRun, getting,
                 got, cleaning, csTimers>>

\* the run ends: its last update (isTranslating: false) and the setTimeout
\* of clearTranslationState
CsFinish ==
  /\ csTranslating /\ Len(inflight) < MaxInflight
  /\ csTranslating' = FALSE
  /\ inflight' = Append(inflight,
                        UpdateMessage(UpdateState(csRun, FALSE)))
  /\ csTimers' = csTimers \cup {csRun}
  /\ UNCHANGED <<translationStates, tabUrl, tabStatus, clock, updating, applied, clearedRun, getting,
                 got, cleaning, csRun>>

\* the timer of run r fires: clearTranslationState of the content script
CsTimer(r) ==
  /\ r \in csTimers /\ Len(inflight) < MaxInflight
  /\ csTimers' = csTimers \ {r}
  /\ inflight' = Append(inflight, ClearMessage(r))
  /\ UNCHANGED <<translationStates, tabUrl, tabStatus, clock, updating, applied, clearedRun, getting,
                 got, cleaning, csRun, csTranslating>>

\* the onMessage listener gets the next message: updateTranslationState up to
\* `await chrome.tabs.get(tabId)`, or clearTranslationState as a whole
Deliver ==
  /\ inflight # <<>>
  /\ inflight' = Tail(inflight)
  /\ IF Head(inflight).action = "UPDATE_TRANSLATION_STATE"
     THEN /\ updating' = updating \cup {Head(inflight).state}
          /\ UNCHANGED <<translationStates, clearedRun>>
     ELSE /\ translationStates' = NoEntry
          /\ clearedRun' = IF Head(inflight).timerOf > clearedRun
                         THEN Head(inflight).timerOf ELSE clearedRun
          /\ UNCHANGED updating
  /\ UNCHANGED <<tabUrl, tabStatus, clock, applied, getting, got, cleaning, csRun,
                 csTranslating, csTimers>>

\* chrome.tabs.get settles for one of the suspended updateTranslationState
\* calls (in no particular order): the state is stored with the tab's URL,
\* or without one when the tab is gone
UpdateResume(state) ==
  /\ state \in updating
  /\ updating' = updating \ {state}
  /\ translationStates' =
       IF tabUrl # 0 THEN Entry(state, tabUrl, clock) ELSE Entry(state, 0, clock)
  /\ applied' = IF state.seq > applied THEN state.seq ELSE applied
  /\ UNCHANGED <<clearedRun, tabUrl, tabStatus, clock, inflight, getting, got, cleaning, csRun,
                 csTranslating, csTimers>>

\* the popup sends GET_TRANSLATION_STATE
AskState ==
  /\ getting.at = "idle" /\ Len(got) < MaxGets
  /\ getting' = [Idle EXCEPT !.at = "asked"]
  /\ UNCHANGED <<translationStates, tabUrl, tabStatus, clock, inflight, updating, applied, clearedRun,
                 got, cleaning, csRun, csTranslating, csTimers>>

\* getTranslationState up to `await chrome.tabs.get(tabId)`
GetBegin ==
  /\ getting.at = "asked"
  /\ LET storedState == translationStates
     IN  IF ~storedState.present
         THEN /\ got' = Append(got, NoEntry) /\ getting' = Idle
              /\ UNCHANGED translationStates
         ELSE IF Expired(storedState, clock)
         THEN /\ translationStates' = NoEntry
              /\ got' = Append(got, NoEntry) /\ getting' = Idle
         ELSE /\ getting' = [at |-> "tabsGet", storedState |-> storedState]
              /\ UNCHANGED <<translationStates, got>>
  /\ UNCHANGED <<tabUrl, tabStatus, clock, inflight, updating, applied, clearedRun, cleaning, csRun,
                 csTranslating, csTimers>>

\* getTranslationState after chrome.tabs.get has settled
GetEnd ==
  /\ getting.at = "tabsGet"
  /\ getting' = Idle
  /\ IF tabUrl # 0 /\ ~(getting.storedState.url # 0 /\ tabUrl # getting.storedState.url)
     THEN got' = Append(got, getting.storedState) /\ UNCHANGED translationStates
     ELSE got' = Append(got, NoEntry) /\ translationStates' = NoEntry
  /\ UNCHANGED <<tabUrl, tabStatus, clock, inflight, updating, applied, clearedRun, cleaning, csRun,
                 csTranslating, csTimers>>

\* the page is replaced: its content script and the timers it set are gone
PageGone == csTranslating' = FALSE /\ csTimers' = {}

\* the tab navigates to another URL: onUpdated with status 'loading' and url
Navigate(url) ==
  /\ tabUrl # 0 /\ url # tabUrl
  /\ tabUrl' = url /\ tabStatus' = "loading"
  /\ translationStates' = onUpdated(ChangeInfo("loading", TRUE, FALSE))
  /\ PageGone
  /\ UNCHANGED <<clock, inflight, updating, applied, clearedRun, getting, got, cleaning, csRun>>

\* the tab reloads its URL: onUpdated with status 'loading' and no url
Refresh ==
  /\ tabUrl # 0 /\ tabStatus = "complete"
  /\ tabStatus' = "loading"
  /\ translationStates' = onUpdated(ChangeInfo("loading", FALSE, FALSE))
  /\ PageGone
  /\ UNCHANGED <<tabUrl, clock, inflight, updating, applied, clearedRun, getting, got, cleaning,
                 csRun>>

\* the page has loaded: onUpdated with status 'complete'
LoadComplete ==
  /\ tabUrl # 0 /\ tabStatus = "loading"
  /\ tabStatus' = "complete"
  /\ translationStates' = onUpdated(ChangeInfo("complete", FALSE, FALSE))
  /\ UNCHANGED <<tabUrl, clock, inflight, updating, applied, clearedRun, getting, got, cleaning,
                 csRun, csTranslating, csTimers>>

\* the tab is closed: the chrome.tabs.onRemoved listener
TabRemoved ==
  /\ tabUrl # 0
  /\ tabUrl' = 0 /\ tabStatus' = "complete"
  /\ translationStates' = NoEntry
  /\ PageGone
  /\ UNCHANGED <<clock, inflight, updating, applied, clearedRun, getting, got, cleaning, csRun>>

\* time passes
Tick ==
  /\ clock < MaxTicks * TickMinutes
  /\ clock' = clock + TickMinutes
  /\ UNCHANGED <<translationStates, tabUrl, tabStatus, inflight, updating, applied, clearedRun,
                 getting, got, cleaning, csRun, csTranslating, csTimers>>

\* performPeriodicCleanup for the tab's entry, up to its chrome.tabs.get
CleanupBegin ==
  /\ ~cleaning /\ translationStates.present
  /\ IF Expired(translationStates, clock)
     THEN translationStates' = NoEntry /\ UNCHANGED cleaning
     ELSE cleaning' = TRUE /\ UNCHANGED translationStates
  /\ UNCHANGED <<tabUrl, tabStatus, clock, inflight, updating, applied, clearedRun, getting, got,
                 csRun, csTranslating, csTimers>>

\* performPeriodicCleanup after chrome.tabs.get has settled
CleanupEnd ==
  /\ cleaning
  /\ cleaning' = FALSE
  /\ translationStates' = IF tabUrl = 0 THEN NoEntry ELSE translationStates
  /\ UNCHANGED <<tabUrl, tabStatus, clock, inflight, updating, applied, clearedRun, getting, got,
                 csRun, csTranslating, csTimers>>

\* what the background script and the tab leave alone
notStoreVars == <<viewVars, codecVars, linkVars, groupVars, historyVars, writeVars,
                  clientVars, walkVars, animVars>>

\* the content script, the message handlers and the tab
NextStore ==
  \/ CsStart /\ UNCHANGED notStoreVars
  \/ CsFinish /\ UNCHANGED notStoreVars
  \/ (\E r \in csTimers : CsTimer(r)) /\ UNCHANGED notStoreVars
  \/ Deliver /\ UNCHANGED notStoreVars
  \/ (\E state \in updating : UpdateResume(state)) /\ UNCHANGED notStoreVars
  \/ (\E url \in TabUrls : Navigate(url)) /\ UNCHANGED notStoreVars
  \/ Refresh /\ UNCHANGED notStoreVars
  \/ LoadComplete /\ UNCHANGED notStoreVars
  \/ TabRemoved /\ UNCHANGED notStoreVars

SpecStore == InitStore /\ [][NextStore]_vars

\* getTranslationState and the periodic cleanup, beside the updates of one
\* run that are suspended at their chrome.tabs.get, the tab and the clock
InitGet ==
  /\ page = <<>>
  /\ Constructed
  /\ callBlocks = <<>> /\ callText = <<>> /\ pieceCount = 0 /\ callResults = <<>>
  /\ html = <<>> /\ roundTrip = NotRun
  /\ container = <<>> /\ extracted = NotRun /\ grouped = NotRun
  /\ calls = 0
  /\ channelText = <<>> /\ target = Untouched
  /\ NoClient
  /\ textNodes = <<>> /\ textElements = NotRun
  /\ NoAnimation
  /\ translationStates = NoEntry /\ tabUrl = 1 /\ tabStatus = "complete" /\ clock = 0
  /\ inflight = <<>> /\ updating = {UpdateState(1, TRUE), UpdateState(1, FALSE)}
  /\ applied = 0 /\ clearedRun = 0
  /\ getting = Idle /\ got = <<>> /\ cleaning = FALSE
  /\ csRun = 1 /\ csTranslating = FALSE /\ csTimers = {}

NextGet ==
  \/ (\E state \in updating : UpdateResume(state)) /\ UNCHANGED notStoreVars
  \/ AskState /\ UNCHANGED notStoreVars
  \/ GetBegin /\ UNCHANGED notStoreVars
  \/ GetEnd /\ UNCHANGED notStoreVars
  \/ (\E url \in TabUrls : Navigate(url)) /\ UNCHANGED notStoreVars
  \/ LoadComplete /\ UNCHANGED notStoreVars
  \/ TabRemoved /\ UNCHANGED notStoreVars
  \/ Tick /\ UNCHANGED notStoreVars
  \/ CleanupBegin /\ UNCHANGED notStoreVars
  \/ CleanupEnd /\ UNCHANGED notStoreVars

SpecGet == InitGet /\ [][NextGet]_vars

\* --------------------------------------------------------------- vocabulary
Last(q) == q[Len(q)]

\* the Translation State messages of the current run, and their statuses
RunMsgs == SelectSeq(emitted, LAMBDA m : m.run = run)
StatusSeq == [i \in DOMAIN RunMsgs |-> RunMsgs[i].status]
TerminalStatuses == {"completed", "error"}

RunEnded == run > 0 /\ pc = "idle"
RunCompleted == RunEnded /\ \E i \in DOMAIN RunMsgs : RunMsgs[i].status = "completed"
RunFailed == RunEnded /\ \E i \in DOMAIN RunMsgs : RunMsgs[i].status = "error"
\* a run that extracted items and ended in 'error'
RunAborted == RunFailed /\ Len(page) > 0

\* the request the loop is suspended on has been answered
AwaitedAnswered ==
  /\ pc = "await"
  /\ <<run, batchIndex>> \in DOMAIN requests
  /\ requests[<<run, batchIndex>>].answered
AwaitedResult == requests[<<run, batchIndex>>].result

\* the loop resumes from `await translationQueue[batchIndex]`
ConsumeStep == AwaitedAnswered /\ pc' # "await" /\ run' = run

\* the classification the specification states for a channel result
ClaimFailed(result) == ~result.defined \/ ~result.success
ClaimFatal(result) ==
  /\ result.defined
  /\ ~result.success
  /\ (result.isRetryable = "false" \/ result.errorStatus \in 400..499)
ClaimTransient(result) == ClaimFailed(result) /\ ~ClaimFatal(result)

BlocksFrom(b) == {x \in 1..Len(page) : x > b * Bpr}
ItemsFrom(b) == UNION {ItemsOfBlock(page, x) : x \in BlocksFrom(b)}
RevealClasses == {"llm-fading-out", "llm-translated", "llm-settled"}

\* ---------------------------------------------------------------------- C1
\* C1: blocks are given to animateTranslation in document order: when a block
\* is revealed, every earlier block has been revealed before it or carries
\* the error mark, whatever the order in which the responses arrived.
C1_RevealInDocumentOrder ==
  \A k \in DOMAIN revealOrder :
    \A b \in 1..(revealOrder[k] - 1) :
      \/ \E m \in 1..(k - 1) : revealOrder[m] = b
      \/ \A x \in ItemsOfBlock(page, b) : "llm-error" \in elems[x].cls

\* batch 1 was answered before batch 0, and two blocks have been revealed
C1_Witness ==
  /\ Len(revealOrder) >= 2
  /\ Len(translationHistory) >= 2
  /\ translationHistory[1] = [run |-> run, batch |-> 1]
  /\ translationHistory[2] = [run |-> run, batch |-> 0]
  /\ Bpr = 1

\* ---------------------------------------------------------------------- C2
\* C2: when the awaited request of batch i has failed fatally, the loop's
\* next step ends the run in status 'error' without touching the page; from
\* then on, until another start, no element changes but by a click on the
\* toggle, which shows what the restoration record holds and leaves the
\* record alone, no request is issued and nothing but the delayed clear is
\* sent; no block of batch i or later has been revealed.
C2_FatalAborts ==
  /\ [][(ConsumeStep /\ ClaimFatal(AwaitedResult)) =>
          /\ pc' = "idle"
          /\ ~isTranslating'
          /\ Last(emitted').status = "error"
          /\ elems' = elems
          /\ nextBatchIndex' = nextBatchIndex]_vars
  /\ [][(RunAborted /\ run' = run) =>
          /\ toggles' = toggles => elems' = elems
          /\ \A x \in DOMAIN elems :
               /\ elems'[x].original = elems[x].original
               /\ elems'[x].translated = elems[x].translated
          /\ DOMAIN requests' \subseteq DOMAIN requests
          /\ nextBatchIndex' = nextBatchIndex
          /\ pc' = "idle"
          /\ \A i \in DOMAIN emitted' : i > Len(emitted) => emitted'[i].status = "idle"]_vars
  /\ [](RunAborted =>
          /\ \A x \in ItemsFrom(batchIndex) : elems[x].cls \cap RevealClasses = {}
          /\ \A k \in DOMAIN revealOrder : revealOrder[k] \notin BlocksFrom(batchIndex))

\* batch 0 failed fatally on a page of four batches: batch 3 was never
\* requested, and another request of the run was answered with a translation
C2_Witness ==
  /\ RunAborted
  /\ batchIndex = 0
  /\ nextBatchIndex < NumBatches(Len(page), Bpr)
  /\ Len(translationHistory) > 0

\* ---------------------------------------------------------------------- C3
\* C3: when the first batch is answered with errorStatus 401, the 'error'
\* Translation State carries errorType 'authentication' and completedBlocks
\* 0, and no request is issued afterwards.
C3_AuthenticationErrorState ==
  \A i \in DOMAIN RunMsgs :
    (RunMsgs[i].status = "error" /\ RunMsgs[i].error = HttpFailure(401).error
       /\ batchIndex = 0) =>
      /\ RunMsgs[i].errorType = "authentication"
      /\ RunMsgs[i].completedBlocks = 0

\* ---------------------------------------------------------------------- C4
\* C4: a transient failure of the awaited request never ends the run in
\* 'error'; a run that extracted items ends in 'error' only on a fatal
\* failure; and a run that ends 'completed' has requested every batch and
\* reports completedBlocks = totalBlocks.
C4_TransientFailureContinues ==
  /\ [][(ConsumeStep /\ ClaimTransient(AwaitedResult)) =>
          /\ Last(emitted').status # "error"
          /\ isTranslating' \/ Last(emitted').status = "completed"]_vars
  /\ [][(pc # "idle" /\ pc' = "idle" /\ run' = run /\ Last(emitted').status = "error") =>
          (AwaitedAnswered /\ ClaimFatal(AwaitedResult))]_vars
  /\ [](RunCompleted =>
          /\ completedBlocks = totalBlocks
          /\ totalBlocks = Len(page)
          /\ nextBatchIndex = NumBatches(Len(page), Bpr)
          /\ Last(RunMsgs).status \in {"completed", "idle"}
          /\ \A i \in DOMAIN RunMsgs :
               RunMsgs[i].status = "completed" => RunMsgs[i].completedBlocks = Len(page))

\* a completed run in which an earlier batch fell back to the original texts
\* and a later batch was translated
C4_Witness ==
  /\ RunCompleted
  /\ \E x, y \in DOMAIN elems :
       /\ x < y
       /\ elems[x].state = "translated" /\ elems[x].content = items[x]
       /\ elems[x].content # run
       /\ elems[y].content = run

\* ---------------------------------------------------------------------- C5
\* C5: the items of a batch whose request failed transiently end with class
\* 'llm-error' and without a 'translated' mutation record.
C5_TransientFailureMarksItems ==
  \A b \in 0..(batchIndex - 1) :
    (pc # "idle" /\ <<run, b>> \in DOMAIN requests /\ requests[<<run, b>>].answered
       /\ ClaimTransient(requests[<<run, b>>].result)) =>
      \A x \in ItemsOfBatch(page, b, Bpr) :
        /\ "llm-error" \in elems[x].cls
        /\ elems[x].state # "translated"

\* ---------------------------------------------------------------------- C6
\* failed result shapes around the boundaries of the rule
ProbeResults ==
  {ChannelResult(d, FALSE, FALSE, "e", "t", st, r) :
     d \in BOOLEAN, st \in {0, 399, 400, 401, 429, 499, 500, 503},
     r \in {"true", "false", "undefined"}}

\* C6: the loop ends the run in 'error' on a failed answer exactly when the
\* answer has isRetryable false or an errorStatus in 400..499; and the
\* fatal mark of callTranslationAPI agrees with that rule on every result
\* shape, the boundary statuses included.
C6_FatalClassification ==
  /\ [][(ConsumeStep /\ ClaimFailed(AwaitedResult)) =>
          ((pc' = "idle" /\ Last(emitted').status = "error")
             <=> ClaimFatal(AwaitedResult))]_vars
  /\ [](\A result \in ProbeResults :
          translationPromise(result).settled = "rejected" <=> ClaimFatal(result))

\* a run ended by an answer that has isRetryable false and no errorStatus
C6_Witness ==
  /\ RunAborted
  /\ Last(RunMsgs).status = "error"
  /\ Last(RunMsgs).error = ResultUnknown.error

\* ---------------------------------------------------------------------- C7
\* C7: a rate-limit answer (errorStatus 429, isRetryable true) never puts the
\* session in status 'error'.
C7_RateLimitIsTransient ==
  \A i \in DOMAIN RunMsgs :
    RunMsgs[i].status = "error" => RunMsgs[i].error # HttpFailure(429).error

\* ---------------------------------------------------------------------- C8
\* C8: while a run is in progress no step begins another run or resets the
\* settings, the history or the counters, and a start call made then is
\* answered 'Translation already in progress' and changes nothing else;
\* once the run's coroutine has ended, isTranslating is false again.
C8_OneRunAtATime ==
  /\ [][isTranslating =>
          /\ run' = run
          /\ translationSettings' = translationSettings
          /\ Len(translationHistory') >= Len(translationHistory)
          /\ completedBlocks' >= completedBlocks
          /\ totalBlocks' = totalBlocks]_vars
  /\ [][(isTranslating /\ \E settings \in SettingsInputs : startTranslation(settings)) =>
          /\ startError' = AlreadyInProgress
          /\ UNCHANGED <<fieldVars, run, loopVars, items, requests, elems, emitted>>]_vars
  /\ [](isTranslating <=> pc # "idle")

\* a second run is in progress and a start call has just been refused
C8_Witness ==
  /\ run = 2
  /\ isTranslating
  /\ startError = AlreadyInProgress

\* ---------------------------------------------------------------------- C9
\* the validation rule as the specification states it
ClaimUsable(v) == v.type = "string" /\ \E i \in DOMAIN v.str : v.str[i] # " "
ClaimMessage(settings) ==
  IF ~ClaimUsable(settings.apiKey) THEN "API key is required"
  ELSE IF ~ClaimUsable(settings.model) THEN "Model is required"
  ELSE "Target language is required"
ClaimInvalid(settings) ==
  ~(ClaimUsable(settings.apiKey) /\ ClaimUsable(settings.model)
      /\ ClaimUsable(settings.targetLanguage))

InvalidInputs == {settings \in SettingsInputs : ClaimInvalid(settings)}
ClaimMessages == [settings \in InvalidInputs |-> ClaimMessage(settings)]

\* C9: a start call whose apiKey, model or targetLanguage is missing, not a
\* string or blank sends nothing, requests nothing and changes no field; when
\* no run is in progress it is answered with the message naming the first
\* unusable field.
C9_ValidationFailsFast ==
  [][(run' # run \/ startError' # startError) =>
       /\ (\E settings \in InvalidInputs : startTranslation(settings)) =>
            UNCHANGED <<fieldVars, run, loopVars, items, requests, elems, emitted,
                        clearTimers, revealOrder>>
       /\ ~isTranslating =>
            \A settings \in InvalidInputs :
              startTranslation(settings) => startError' = ClaimMessages[settings]]_vars

\* a call with a blank model has been refused before any run
C9_Witness ==
  /\ startError = "Model is required"
  /\ run = 0
  /\ emitted = <<>>
  /\ ~isTranslating

\* --------------------------------------------------------------------- C10
\* the order of the statuses of the current run; afterStarting admits
\* 'error' directly after 'starting'
StatusOrder(afterStarting) ==
  /\ run > 0 => (Len(StatusSeq) >= 1 /\ StatusSeq[1] = "starting")
  /\ \A i \in DOMAIN StatusSeq :
       /\ StatusSeq[i] = "starting" => i = 1
       /\ StatusSeq[i] = "translating" => (i > 1 /\ StatusSeq[i - 1] \in {"starting", "translating"})
       /\ StatusSeq[i] \in TerminalStatuses =>
            /\ i > 1
            /\ \/ StatusSeq[i - 1] = "translating"
               \/ (afterStarting /\ StatusSeq[i - 1] = "starting" /\ StatusSeq[i] = "error")
       /\ StatusSeq[i] = "idle" => (i > 1 /\ StatusSeq[i - 1] \in TerminalStatuses)
  /\ run > 0 =>
       /\ pc = "idle" <=> \E i \in DOMAIN StatusSeq : StatusSeq[i] \in TerminalStatuses
       /\ (pc = "idle" /\ Last(StatusSeq) # "idle") => run \in clearTimers

\* C10 as stated: 'starting' once, then 'translating' one or more times,
\* then one terminal status, then the clear; a terminal status only after
\* 'translating'.
C10_StatusSequenceAsStated == StatusOrder(FALSE)

\* C10 as amended: the same order, except that a run that extracts no item
\* goes from 'starting' to 'error' without a 'translating' update.
C10_StatusSequence == StatusOrder(Len(page) = 0)

\* a run over two blocks has completed and its state has been cleared
C10_Witness ==
  /\ Len(page) = 2
  /\ StatusSeq = <<"starting", "translating", "translating", "translating",
                   "completed", "idle">>

\* --------------------------------------------------------------------- C11
\* C11 as stated: a run whose extraction yields no items emits no Translation
\* State other than the one terminal error (and its delayed clear).
C11_OnlyTerminalErrorAsStated ==
  (run > 0 /\ NumItems(page) = 0) =>
    \A i \in DOMAIN RunMsgs : RunMsgs[i].status \in {"error", "idle"}

\* C11 as amended: a run whose extraction yields no items emits 'starting',
\* then the one terminal error 'No translatable content found on this page'
\* with completedBlocks 0, then only the delayed clear; it issues no request,
\* leaves no coroutine behind and ends with isTranslating false.
C11_EmptyExtraction ==
  (run > 0 /\ NumItems(page) = 0) =>
    /\ StatusSeq \in {<<"starting", "error">>, <<"starting", "error", "idle">>}
    /\ RunMsgs[2].error = NoContent
    /\ RunMsgs[2].completedBlocks = 0
    /\ ~RunMsgs[2].isTranslating
    /\ \A id \in DOMAIN requests : id[1] # run
    /\ nextBatchIndex = 0
    /\ ~isTranslating
    /\ pc = "idle"
    /\ completedBlocks = 0
    /\ run \in clearTimers \/ Last(StatusSeq) = "idle"

\* a second attempt on a page without items has failed and been cleared
C11_Witness ==
  /\ run = 2
  /\ NumItems(page) = 0
  /\ StatusSeq = <<"starting", "error", "idle">>

\* ----------------------------------------------------------------- C12..C14
\* the call has returned
Returned == callResults # <<>>
\* the original text of every item of block i, in order
OriginalTexts(i) == [k \in DOMAIN callBlocks[i] |-> callBlocks[i][k].originalText]
\* what an item held before the call: its markup when it has links, its text
\* otherwise
OriginalContent(item) == IF item.hasLinks THEN item.originalHTML ELSE item.originalText
\* the item's payload text holds neither separator token
TokenFree(item) ==
  /\ ~Includes(OriginalContent(item), ItemToken)
  /\ ~Includes(OriginalContent(item), BlockToken)

\* C12: whatever string the channel returned, translateMultipleBlocks returns
\* one array per block of the batch, and the i-th array has as many entries
\* as block i has items.
C12_DecodeKeepsShape ==
  Returned =>
    /\ Len(callResults) = Len(callBlocks)
    /\ \A i \in DOMAIN callBlocks : Len(callResults[i]) = Len(callBlocks[i])

\* a response of three block segments was decoded for a batch of two blocks
C12_Witness ==
  /\ Returned
  /\ Len(callBlocks) = 2
  /\ Len(SplitBlocks(callText)) = 3

\* C13: when the channel returns the payload unchanged, the result has one
\* array per block, each as long as its block, and every link-free item gets
\* back exactly its original text.
C13_IdentityRoundTrip ==
  (Returned /\ callText = CombinedText(callBlocks)) =>
    /\ Len(callResults) = Len(callBlocks)
    /\ \A i \in DOMAIN callBlocks :
         /\ Len(callResults[i]) = Len(callBlocks[i])
         /\ \A k \in DOMAIN callBlocks[i] :
              ~callBlocks[i][k].hasLinks =>
                callResults[i][k] = callBlocks[i][k].originalText

RECURSIVE AnchorsFrom(_, _)
AnchorsFrom(s, from) ==
  LET m == NextLinkMatch(s, from)
  IN  IF ~m.found THEN <<>>
      ELSE <<[href |-> m.href, linkText |-> m.linkText,
              attributes |-> LinkAttributes(SubSeq(s, m.from, m.to), m.href)]>>
             \o AnchorsFrom(s, m.to + 1)
Anchors(s) == AnchorsFrom(s, 1)

ScenarioHtml == OpenAnchor \o <<"c">> \o CloseAnchor \o <<" ", "c">>

\* C15: encoding the anchors of an item's markup and restoring them gives
\* markup with the same anchors: as many, with the same href, attributes and
\* inner text; and the markup '<a href="u">c</a> c' comes back unchanged.
C15_LinkRoundTrip ==
  roundTrip.done =>
    /\ Anchors(roundTrip.restored) = Anchors(html)
    /\ html = ScenarioHtml => roundTrip.restored = html

\* --------------------------------------------------------------------- C16
\* C16: every block groupIntoBlocks returns holds at least 1 and at most 5
\* items.
C16_BlockSizes ==
  grouped.done =>
    \A b \in DOMAIN grouped.textBlocks :
      Len(grouped.textBlocks[b]) >= 1 /\ Len(grouped.textBlocks[b]) <= 5

\* a block of five and a block of one have been returned
C16_Witness ==
  /\ grouped.done
  /\ \E b \in DOMAIN grouped.textBlocks : Len(grouped.textBlocks[b]) = 5
  /\ \E b \in DOMAIN grouped.textBlocks : Len(grouped.textBlocks[b]) = 1

\* --------------------------------------------------------------------- C17
\* C17: in what groupIntoBlocks returns, an item whose element is a
\* heading, an article or a section is the first item of its block.
C17_HeadingsStartBlocks ==
  grouped.done =>
    \A b \in DOMAIN grouped.textBlocks :
      \A k \in DOMAIN grouped.textBlocks[b] :
        toLowerCase[grouped.textBlocks[b][k].element.tagName]
          \in {"h1", "h2", "h3", "h4", "h5", "h6", "article", "section"} => k = 1

\* a heading that follows two paragraphs of an open block has been grouped
C17_Witness ==
  /\ grouped.done
  /\ \E i \in DOMAIN extracted.textElements :
       /\ i > 2
       /\ extracted.textElements[i].element.tagName = "H1"
       /\ extracted.textElements[i - 1].element.tagName = "P"
       /\ extracted.textElements[i - 2].element.tagName = "P"
       /\ areElementsRelated(extracted.textElements[i - 2], extracted.textElements[i - 1])

\* --------------------------------------------------------------------- C18
\* '<h1>Hello</h1><p>World of tests</p>' and the same root with the heading
\* 'Hello world'
ScenarioRoot == <<Node("H1", "root", Chars5), Node("P", "root", Chars14)>>
LongHeadingRoot == <<Node("H1", "root", Chars11), Node("P", "root", Chars14)>>
Hola == <<"H", "o", "l", "a">>
MundoDePruebas ==
  <<"M", "u", "n", "d", "o", " ", "d", "e", " ", "p", "r", "u", "e", "b", "a", "s">>

\* the scenario as stated for a root: two items, two blocks, one payload of
\* two segments, and the answer 'Hola' + separator + 'Mundo de pruebas'
\* decoded to [['Hola'], ['Mundo de pruebas']]
TwoBlockScenario ==
  /\ Len(extracted.textElements) = 2
  /\ Len(grouped.textBlocks) = 2
  /\ Len(grouped.textBlocks) <= DefaultBlocksPerRequest
  /\ Len(Split(CombinedText(grouped.textBlocks), BlockSeparator)) = 2
  /\ DecodeBlocks(grouped.textBlocks, Hola \o BlockSeparator \o MundoDePruebas)
       = <<<<Hola>>, <<MundoDePruebas>>>>

Mutated(e) == e.state \in {"translated", "showing-original"}
\* a step that is a click on a toggle button
ClickStep == Len(toggles') = Len(toggles) /\ toggles' # toggles

\* C19: a click on the toggle turns every mutated element over: one that
\* shows its translation with state 'translated' shows its original
\* afterwards, and one that shows its original shows its translation with
\* state 'translated' afterwards; so two clicks restore the post-translation
\* state, and after n clicks the original is shown for odd n and the
\* translation for even n.
C19_ToggleAlternates ==
  [][ClickStep =>
       \A x \in DOMAIN elems :
         /\ elems[x].state = "translated" =>
              /\ elems'[x].state = "showing-original"
              /\ elems'[x].content = elems[x].original
         /\ elems[x].state = "showing-original" =>
              /\ elems'[x].state = "translated"
              /\ elems'[x].content = elems[x].translated]_vars

\* --------------------------------------------------------------------- C20
\* C20: the restoration record of a mutated element holds the content the
\* element had before its first translation, the page's own text, and an
\* element in state 'showing-original' displays it.
C20_OriginalIsKept ==
  \A x \in DOMAIN elems :
    /\ Mutated(elems[x]) => elems[x].original = 0
    /\ elems[x].state = "showing-original" => elems[x].content = 0

\* C21: the history never holds more than 10 entries; a successful response
\* appends exactly one entry at the end, and once that would make 11 the
\* oldest entry goes, so the 10 most recent stay in the order they were
\* appended; any other response leaves the history as it was.
C21_HistoryStep ==
  \A result \in ChannelResults :
    Call(result) =>
      IF result.defined /\ result.success /\ result.textIsString
      THEN LET old == translationHistory
               new == translationHistory'
               kept == Len(new) - 1
           IN  /\ Len(new) = Min(Len(old) + 1, MaxHistory)
               /\ new[Len(new)] = [run |-> run, batch |-> calls]
               /\ \A k \in 1..kept : new[k] = old[Len(old) - kept + k]
      ELSE translationHistory' = translationHistory
C21_HistoryCapped == [][C21_HistoryStep]_vars

\* an eleventh entry was appended and the oldest one is gone
C21_Witness ==
  /\ Len(translationHistory) = MaxHistory
  /\ translationHistory[1].batch > 0
  /\ calls > MaxHistory
  /\ \E k \in 1..(MaxHistory - 1) :
       translationHistory[k + 1].batch > translationHistory[k].batch + 1

\* C22: the history belongs to one run: every entry in it comes from the
\* response to a request the current run issued, also when an earlier run
\* was aborted with requests in flight that are answered after the next run
\* has started.
C22_HistoryOfOneRun ==
  \A k \in 1..Len(translationHistory) : translationHistory[k].run = run

\* C23: once an item has been revealed, the global toggle button eventually
\* exists, also when the run is aborted by a fatal error on a later batch.
RevealedSome == \E x \in DOMAIN elems : elems[x].state # "none"
C23_ToggleEventually == RevealedSome ~> (Len(toggles) > 0)

\* C24: right after an accepted start the history is empty, completedBlocks
\* is 0 and nothing a previous run put on the page is left: no toggle button
\* and no phase class other than the 'llm-preparing' the new run has just
\* given to the items of its first batch (showTranslationProgress has no
\* caller, so there is never a progress indicator to remove).
C24_StartStep ==
  run' = run + 1 =>
    /\ translationHistory' = <<>>
    /\ completedBlocks' = 0
    /\ Len(toggles') = 0
    /\ \A x \in DOMAIN elems' :
         elems'[x].cls \cap PhaseClasses \subseteq
           IF pc' = "await" /\ x \in ItemsOfBatch(page, 0, BlocksPerRequest(translationSettings'))
           THEN {"llm-preparing"} ELSE {}
C24_StartClearsArtifacts == [][C24_StartStep]_vars

\* C25: once the delayed reset of a run that a fatal error aborted has fired,
\* no element carries 'llm-preparing' or any other phase class (there is
\* never a progress indicator: showTranslationProgress has no caller).
C25_ResetCleansUp ==
  (RunAborted /\ run \notin clearTimers) =>
    \A x \in DOMAIN elems : elems[x].cls \cap PhaseClasses = {}

\* C26: the channel's text is written as markup only when it holds a
\* reconstructed anchor tag, and then only sanitized: what is inserted as
\* markup never holds a script tag; any other text is written as plain text.
C26_MarkupIsSanitized ==
  target.state = "translated" =>
    /\ target.asMarkup =>
         /\ Includes(target.translated, OpenTag) /\ Includes(target.translated, CloseTag)
         /\ ~Includes(target.content, ScriptTag)
    /\ ~(Includes(target.translated, OpenTag) /\ Includes(target.translated, CloseTag)) =>
         ~target.asMarkup /\ target.content = target.translated

\* C27: two-batch lookahead: while a run is in its batch loop at batch i (from
\* the moment the items of batch i are Preparing until the loop moves on),
\* the requests of every batch up to i + 2 that exists have been issued; so
\* batches 0 and 1 are requested before any item is Preparing, and batch
\* i + 2 is requested by the time batch i has been animated.
Requested(b) == <<run, b>> \in DOMAIN requests
C27_TwoBatchLookahead ==
  pc # "idle" =>
    /\ \A b \in 0..(NumBatches(Len(page), Bpr) - 1) : b <= batchIndex + 2 => Requested(b)
    /\ nextBatchIndex = Min(batchIndex + 3, NumBatches(Len(page), Bpr))

\* batch 0 of at least four has been animated and batch 2 is requested,
\* batch 3 is not yet
C27_Witness ==
  /\ pc = "batchGap" /\ batchIndex = 0
  /\ NumBatches(Len(page), Bpr) >= 4
  /\ Requested(2) /\ ~Requested(3)

\* C28: a chat-completion request answered with a 5xx status is retried, up
\* to 3 times, before the failure is reported; one answered with a 4xx status
\* other than 429 is reported at once.
C28_RetriesServerErrors ==
  (outcome.done /\ ~outcome.result.success /\ Len(attempts) > 0) =>
    LET status == outcome.result.errorStatus
    IN  /\ status >= 500 =>
             /\ Len(attempts) = 1 + MaxRetries
             /\ \A k \in DOMAIN attempts : attempts[k].fetched.status >= 500
        /\ (status \in 400..499 /\ status # 429) => Len(attempts) = 1

\* C30 as stated: with both arguments non-empty the result is the base
\* without its trailing slashes, one slash, and the path without its leading
\* slashes; with an empty argument it is the other argument unchanged.
AllSlashes(s) == \A i \in 1..Len(s) : s[i] = Slash
\* s = head \o slashes, head not ending in a slash
IsStrippedBase(head, s) ==
  /\ Len(head) <= Len(s) /\ head = SubSeq(s, 1, Len(head))
  /\ AllSlashes(SubSeq(s, Len(head) + 1, Len(s)))
  /\ (head # <<>> => head[Len(head)] # Slash)
\* s = slashes \o tail, tail not starting with a slash
IsStrippedPath(tail, s) ==
  /\ Len(tail) <= Len(s) /\ tail = SubSeq(s, Len(s) - Len(tail) + 1, Len(s))
  /\ AllSlashes(SubSeq(s, 1, Len(s) - Len(tail)))
  /\ (tail # <<>> => tail[1] # Slash)
JoinedWithOneSlash ==
  \E i \in 0..Len(urlBase) : \E j \in 0..Len(urlPath) :
    /\ IsStrippedBase(SubSeq(urlBase, 1, i), urlBase)
    /\ IsStrippedPath(SubSeq(urlPath, Len(urlPath) - j + 1, Len(urlPath)), urlPath)
    /\ joined.url = SubSeq(urlBase, 1, i) \o <<Slash>>
                      \o SubSeq(urlPath, Len(urlPath) - j + 1, Len(urlPath))
EmptyArgument ==
  (urlBase = <<>> \/ urlPath = <<>>) =>
    joined.url = (IF urlBase # <<>> THEN urlBase ELSE urlPath)
C30_JoinAsStated ==
  joined.done =>
    /\ EmptyArgument
    /\ (urlBase # <<>> /\ urlPath # <<>>) => JoinedWithOneSlash

\* C30, amended: as stated when the path holds a character other than a
\* slash; a non-empty path of slashes only adds nothing, the result is the
\* base without its trailing slashes.
C30_Join ==
  joined.done =>
    /\ EmptyArgument
    /\ (urlBase # <<>> /\ urlPath # <<>> /\ ~AllSlashes(urlPath)) => JoinedWithOneSlash
    /\ (urlBase # <<>> /\ urlPath # <<>> /\ AllSlashes(urlPath)) =>
         IsStrippedBase(joined.url, urlBase)

\* 'a/' and '//' were joined to 'a'
C30_Witness ==
  /\ joined.done
  /\ urlBase = <<"a", Slash>> /\ urlPath = <<Slash, Slash>>
  /\ joined.url = <<"a">>

\* C29: every text node the skip rules let through (accepted by the walker,
\* in an element whose aggregated text has at least 10 characters) is in an
\* item, and no text node is in more than one item, also when an element
\* that gives an item holds a nested element with text of its own.
ItemsWith(i) ==
  {k \in DOMAIN textElements.items : i \in textElements.items[k].allTextNodes}
NonSkipped(i) ==
  /\ acceptNode(textNodes[i])
  /\ Len(FullText(textNodes, textNodes[i].parentElement)) >= 10
C29_EveryTextNodeOnce ==
  textElements.done =>
    \A i \in DOMAIN textNodes :
      /\ NonSkipped(i) => ItemsWith(i) # {}
      /\ Cardinality(ItemsWith(i)) <= 1
\* --------------------------------------------------------------------- C31
\* C31: when the animation of one item fails, every other item of the same
\* block and of the following blocks is still revealed and settled: once the
\* batch is done, every item but the failing one carries llm-settled.
C31_SiblingsStillAnimated ==
  animPc = "batchDone" =>
    \A x \in DOMAIN animElems :
      x # thrower.item => "llm-settled" \in animElems[x].cls

\* --------------------------------------------------------------------- C32
\* C32: while the run is at batch i of its loop, no request for a batch with
\* an index above i + 2 has been issued, and no batch is requested twice in a
\* run: the requests a step issues are the current run's batches from the
\* old nextBatchIndex up to the new one, none of which had a request before.
IssuedBy(r) == {id[2] : id \in {x \in DOMAIN requests : x[1] = r}}
C32_AtMostTwoAhead ==
  [][/\ pc' # "idle" =>
          \A id \in DOMAIN requests' : id[1] = run' => id[2] <= batchIndex' + 2
     /\ LET from == IF run' = run THEN nextBatchIndex ELSE 0
        IN  /\ DOMAIN requests' \ DOMAIN requests
                 = {<<run', b>> : b \in from..(nextBatchIndex' - 1)}
            /\ run' = run => \A b \in IssuedBy(run) : b < nextBatchIndex]_vars

\* batch 0 of four is being animated: batch 2 has been requested ahead of
\* it, batch 3 has not
C32_Witness ==
  /\ pc = "fading" /\ batchIndex = 0
  /\ NumBatches(Len(page), Bpr) = 4
  /\ Requested(1) /\ Requested(2) /\ ~Requested(3)

\* --------------------------------------------------------------------- C33
\* C33: in every Translation State a run has sent, completedBlocks lies in
\* 0..totalBlocks and progress in 0..100; the run's 'translating' updates
\* carry completedBlocks 0, 1, 2, ... in this order (one more per processed
\* block); and its 'completed' state carries progress 100 and completedBlocks
\* equal to totalBlocks.
RunStatuses == {"starting", "translating", "completed", "error"}
SentByRun == SelectSeq(emitted, LAMBDA m : m.run = run /\ m.status \in RunStatuses)
TranslatingUpdates == SelectSeq(SentByRun, LAMBDA m : m.status = "translating")
C33_ProgressCounters ==
  /\ \A k \in DOMAIN SentByRun :
       /\ SentByRun[k].completedBlocks \in 0..SentByRun[k].totalBlocks
       /\ SentByRun[k].progress \in 0..100
       /\ SentByRun[k].status = "completed" =>
            /\ SentByRun[k].progress = 100
            /\ SentByRun[k].completedBlocks = SentByRun[k].totalBlocks
  /\ \A k \in DOMAIN TranslatingUpdates : TranslatingUpdates[k].completedBlocks = k - 1

\* a run over three blocks or more has completed, with one 'translating'
\* update per block after the first one
C33_Witness ==
  /\ \E k \in DOMAIN SentByRun :
       SentByRun[k].status = "completed" /\ SentByRun[k].totalBlocks >= 3
  /\ Len(TranslatingUpdates) = totalBlocks + 1

\* --------------------------------------------------------------------- C34
\* C34: every item goes through Preparing, Fading-out, Reveal and Settled in
\* this order: an element gets llm-fading-out only while it is Preparing and
\* its batch's promise has resolved with a success; it gets llm-translated
\* only while it is Fading-out, and that step leaves the restoration record
\* holding the item's text as extracted, not the text written over it; it
\* gets llm-settled only while it carries llm-translated; and nothing but
\* Reveal and the toggle button changes an element's content.
Gets(x, class) == class \notin elems[x].cls /\ class \in elems'[x].cls
C34_PhasesInOrder ==
  [][\A x \in DOMAIN elems :
       /\ Gets(x, "llm-fading-out") =>
            /\ "llm-preparing" \in elems[x].cls
            /\ x \in ItemsOfBatch(page, batchIndex, Bpr)
            /\ PromiseOf(<<run, batchIndex>>).settled = "resolved"
            /\ PromiseOf(<<run, batchIndex>>).success
       /\ Gets(x, "llm-translated") =>
            /\ "llm-fading-out" \in elems[x].cls
            /\ elems'[x].original = items[x]
            /\ elems'[x].state = "translated"
            /\ elems'[x].content = elems'[x].translated
       /\ Gets(x, "llm-settled") =>
            /\ "llm-translated" \in elems[x].cls
            /\ elems[x].state \in {"translated", "showing-original"}
       /\ (elems'[x].content # elems[x].content /\ toggles' = toggles) =>
            Gets(x, "llm-translated")]_vars

\* the second item of a block is Settled with the run's translation, its
\* restoration record holding the page's own text
C34_Witness ==
  \E x \in DOMAIN elems :
    /\ x > 1 /\ "llm-settled" \in elems[x].cls
    /\ elems[x].original = 0 /\ elems[x].content = run /\ run = 1

\* --------------------------------------------------------------------- C35
\* C35: in the output of groupIntoBlocks an item tagged p, div, li or
\* blockquote whose predecessor has a different tag is the first item of its
\* block: inside a block no such item follows an item with another tag.
TagOf(item) == toLowerCase[item.element.tagName]
C35_TagChangeStartsBlock ==
  grouped.done =>
    \A b \in DOMAIN grouped.textBlocks :
      \A k \in 2..Len(grouped.textBlocks[b]) :
        TagOf(grouped.textBlocks[b][k]) \in {"p", "div", "li", "blockquote"}
          => TagOf(grouped.textBlocks[b][k - 1]) = TagOf(grouped.textBlocks[b][k])

\* --------------------------------------------------------------------- C36
\* C36: no string translateMultipleBlocks returns for an item holds a
\* separator token, whatever the response text (stated for batches whose own
\* texts hold no token, so that a token in a result comes from the response).
HasToken(text) == Includes(text, BlockToken) \/ Includes(text, ItemToken)
TokenFreeBatch ==
  \A i \in DOMAIN callBlocks : \A k \in DOMAIN callBlocks[i] :
    ~HasToken(callBlocks[i][k].originalText) /\ ~HasToken(callBlocks[i][k].originalHTML)
C36_NoTokenInResults ==
  (callResults # <<>> /\ TokenFreeBatch) =>
    \A i \in DOMAIN callResults : \A k \in DOMAIN callResults[i] :
      ~HasToken(callResults[i][k])

\* --------------------------------------------------------------------- C37
\* C37: the store converges to the last Translation State sent: it never
\* holds an update after a later one has been written; and once the latest
\* run's updates and its CLEAR have all been handled, it holds no state with
\* isTranslating = true.
AllHandled ==
  /\ inflight = <<>> /\ updating = {}
  /\ csRun > 0 /\ clearedRun = csRun
C37_StoreConverges ==
  /\ translationStates.present => translationStates.state.seq >= applied
  /\ AllHandled => ~(translationStates.present /\ translationStates.state.isTranslating)

\* --------------------------------------------------------------------- C38
\* C38: the delayed reset of one run never removes the stored state of a
\* later run: when the CLEAR sent by run r's timer is handled, the entry it
\* deletes is not the state of a run after r.
C38_TimerSparesLaterRun ==
  [][(/\ inflight # <<>>
      /\ Head(inflight).action = "CLEAR_TRANSLATION_STATE"
      /\ inflight' = Tail(inflight)
      /\ translationStates.present /\ ~translationStates'.present)
       => translationStates.state.run <= Head(inflight).timerOf]_vars

\* --------------------------------------------------------------------- C39
\* the entry a call of getTranslationState has returned, when the step is
\* the end of a call
ReturnedBy(entry) == got' = Append(got, entry) /\ getting'.at = "idle"

C40_LoadingDeletesState ==
  [][(/\ translationStates.present /\ tabUrl # 0 /\ tabUrl' # 0
      /\ tabStatus' = "loading"
      /\ (tabStatus = "complete" \/ tabUrl' # tabUrl))
       => ~translationStates'.present]_vars

====
